---- MODULE Spec2Model ----
(***************************************************************************)
(* Model of mcp-weixin-spider: the singleton browser session of the two    *)
(* spider backends (weixin_spider_simple.WeixinSpider, the full-browser    *)
(* backend, and weixin_spider_agentbrowser.WeixinSpiderAB, the lightweight *)
(* backend), their crawl entry point, and the tool operations of           *)
(* mcp_weixin_spider/server.py built on them.                              *)
(***************************************************************************)
EXTENDS Integers, Sequences, FiniteSets, TLC

\* ---------------------------------------------------------------- bounds
NumThreads == 2     \* threads of the session-lifecycle specification
NumCallers == 3     \* threads of the acquire-only specification
MaxInst == 2        \* spider objects constructed in one behaviour
MaxLaunch == 2      \* browser launches attempted in one behaviour

Threads == 1..NumThreads
Callers == 1..NumCallers
AllThreads == 1..(IF NumThreads > NumCallers THEN NumThreads ELSE NumCallers)
Instances == 1..MaxInst

None == 0           \* Python None for an instance handle
Unbound == -1       \* a local name not yet assigned

VARIABLES
    backend,        \* "selenium" (WeixinSpider) or "ab" (WeixinSpiderAB)
    instance,       \* cls._instance: None or the shared spider object
    lock,           \* cls._lock: 0 when free, else the holding thread
    nInst,          \* spider objects constructed so far (object identities)
    driver,         \* driver[i]: self._driver of spider i, "None" or "Chrome"
    initialized,    \* initialized[i]: self._initialized of spider i
    launches,       \* browser launches attempted by _init_browser so far
    pc,             \* pc[t]: position of thread t inside the current call
    self,           \* self[t]: the spider thread t holds (result of get_instance)
    exc,            \* exc[t]: exception that ended thread t's last call, or "none"
    closed,         \* spiders on which a close() call has returned
    since,          \* since[t]: value of closed when t's current get_instance began
    teardown,       \* teardown[i]: outcome of the last backend teardown of spider i
    stateFile,      \* BROWSER_STATE_FILE is set and the file exists
    stateLoaded,    \* stateLoaded[i]: self._state_loaded of spider i (WeixinSpiderAB)
    page,           \* page[s]: the page browser session s currently shows
    url,            \* url[t]: the url argument of thread t's crawl call
    ops,            \* ops[t]: backend operations issued by t's current crawl call
    article,        \* article[t]: the ArticleContent t's last crawl returned
    args,           \* args[t]: the keyword arguments of t's crawl call
    log,            \* log[t]: what t's current crawl met on its way
    site,           \* which set of pages a navigation may end up showing
    DOWNLOAD_IMAGES, \* the server's DOWNLOAD_IMAGES setting
    OUTPUT_DIR,     \* the server's OUTPUT_DIR setting
    tool,           \* the tool operation in progress and its position
    urls,           \* the url list (or the single url) the tool was called with
    idx,            \* compare_articles: position of the for loop in urls
    articles_data,  \* compare_articles: the accumulating result list
    result,         \* the JSON object the tool returned
    outcomes,       \* how each crawl issued by the tool ended, in order
    snap,           \* nInst and launches when the tool was invoked
    results,        \* batch_crawl_articles: the summaries collected so far
    errors,         \* batch_crawl_articles: the per-url errors collected so far
    label,          \* the custom_filename handed to sanitize_path
    sanitized       \* what sanitize_path returned for it

vars == <<backend, instance, lock, nInst, driver, initialized, launches,
          pc, self, exc, closed, since, teardown,
          stateFile, stateLoaded, page, url, ops, article, args, log, site,
          DOWNLOAD_IMAGES, OUTPUT_DIR,
          tool, urls, idx, articles_data, result, outcomes, snap,
          results, errors, label, sanitized>>

config == <<stateFile, site, DOWNLOAD_IMAGES, OUTPUT_DIR>>

crawlVars == <<config, stateLoaded, page, url, ops, article, args, log>>

pathVars == <<label, sanitized>>

batchVars == <<results, errors>>

toolVars == <<tool, urls, idx, articles_data, result, outcomes, snap, batchVars,
              pathVars>>

histVars == <<closed, since, teardown>>

sessionVars == <<instance, lock, nInst, driver, initialized, launches>>

Backends == {"selenium", "ab"}

\* ------------------------------------------------------------------ URLs
\* A url string, by the components urllib.parse.urlparse splits it into.
\* authority is FALSE when the string has no "//" part (netloc is then "").
MkUrl(authority, userinfo, host, port, path) ==
    [authority |-> authority, userinfo |-> userinfo, host |-> host,
     port |-> port, path |-> path]

U_mp == MkUrl(TRUE, "", "mp.weixin.qq.com", "", "/s/a")
U_wx == MkUrl(TRUE, "", "weixin.qq.com", "", "/s/b")
U_evil == MkUrl(TRUE, "", "evil.example", "", "/s/a")
U_sub == MkUrl(TRUE, "", "mp.weixin.qq.com.evil.example", "", "/s/a")
U_port == MkUrl(TRUE, "", "mp.weixin.qq.com", "8443", "/s/a")
U_bare == MkUrl(FALSE, "", "", "", "mp.weixin.qq.com/s/a")

Urls == {U_mp, U_wx, U_evil, U_sub, U_port, U_bare}
NoUrl == MkUrl(FALSE, "", "", "", "")

\* urlparse(url).netloc: [userinfo@]host[:port] as written, "" without "//".
Netloc(u) ==
    IF u.authority THEN <<u.userinfo, u.host, u.port>> ELSE <<"", "", "">>

\* The literal list ['mp.weixin.qq.com', 'weixin.qq.com'].
AllowedNetlocs == {<<"", "mp.weixin.qq.com", "">>, <<"", "weixin.qq.com", "">>}

\* _is_valid_weixin_url: `parsed.netloc in [...]`.
IsValidWeixinUrl(u) == Netloc(u) \in AllowedNetlocs

\* ----------------------------------------------------------------- pages
MaxText == 2        \* characters of the content container's text
MaxImgs == 2        \* img elements inside the content container

Chars == {"a", " "}
Texts == UNION {[1..n -> Chars] : n \in 0..MaxText}

\* An img element by its data-src and src attributes ("" when absent).
Img(dataSrc, src) == [data_src |-> dataSrc, src |-> src]
ImgKinds == {Img("http://img", "data:gif"),    \* lazy image with placeholder
             Img("", "http://img"),            \* plain image
             Img("", "data:gif")}              \* inline placeholder only
ImgSeqs == UNION {[1..n -> ImgKinds] : n \in 0..MaxImgs}

\* What a rendered page offers to the queries of crawl: whether #js_content
\* exists, whether the body text carries a challenge marker, the text of
\* #js_content and its img elements.
\* The selectors the metadata helpers of the two backends query.
Selectors == {"h1.rich_media_title", "#activity-name", "h1",
              "span.rich_media_meta.rich_media_meta_text", "#js_name",
              ".profile_nickname", "a.weui-wa-hotarea", "#publish_time",
              "em.rich_media_meta.rich_media_meta_text", ".rich_media_meta_list em",
              ".rich_media_meta_text"}

\* What a selector finds on a page: no element, or an element and its text.
Absent == [present |-> FALSE, text |-> <<>>]

Elem(text) == [present |-> TRUE, text |-> text]

NoElems == [s \in Selectors |-> Absent]

MkPage(content, challenge, text, imgs) ==
    [content |-> content, challenge |-> challenge, text |-> text, imgs |-> imgs,
     elems |-> NoElems]

Blank == MkPage(FALSE, FALSE, <<>>, <<>>)

\* The pages of the web: any text without images, any images beside a
\* one-character text, and pages without #js_content.
Pages ==
    {MkPage(TRUE, c, x, <<>>) : c \in BOOLEAN, x \in Texts}
    \cup {MkPage(TRUE, c, <<"a">>, g) : c \in BOOLEAN, g \in ImgSeqs}
    \cup {MkPage(FALSE, c, <<>>, <<>>) : c \in BOOLEAN}

\* str.strip() over the modelled alphabet: drop leading and trailing blanks.
RECURSIVE LStrip(_)
LStrip(x) ==
    IF x # <<>> /\ Head(x) = " " THEN LStrip(Tail(x)) ELSE x

RECURSIVE RStrip(_)
RStrip(x) ==
    IF x # <<>> /\ x[Len(x)] = " " THEN RStrip(SubSeq(x, 1, Len(x) - 1)) ELSE x

Strip(x) == RStrip(LStrip(x))

\* An article whose word_count counts blank-separated words instead of
\* characters.
MkArticle_CountsWords(u, text, images) ==
    [url |-> u, content_text |-> text,
     word_count |-> Cardinality({k \in 1..Len(text) :
                                   text[k] # " " /\ (k = 1 \/ text[k - 1] = " ")}),
     images |-> images,
     title |-> <<>>, author |-> <<>>, account_name |-> <<>>, publish_date |-> <<>>,
     content_html |-> <<>>]

\* ArticleContent, by the fields the modelled operations read; the
\* metadata fields and content_html at their dataclass default "".
MkArticle(u, text, images) ==
    [url |-> u, content_text |-> text, word_count |-> Len(text), images |-> images,
     title |-> <<>>, author |-> <<>>, account_name |-> <<>>, publish_date |-> <<>>,
     content_html |-> <<>>]

NoArticle == [MkArticle(NoUrl, <<>>, <<>>) EXCEPT !.word_count = -1]

\* ------------------------------------------------- analyzer and summarizer
\* `article.content_text[:300] + "..." if len(article.content_text) > 300`.
PreviewLen == 300

Ellipsis == <<".", ".", ".">>

\* The boundary test of the preview written with >= : marks a text of
\* exactly 300 characters as truncated.
First300_Inclusive(text) ==
    IF Len(text) >= PreviewLen
    THEN SubSeq(text, 1, PreviewLen) \o Ellipsis
    ELSE text

\* (text[:300] + "...") if len(text) > 300 else text
First300(text) ==
    IF Len(text) > PreviewLen
    THEN SubSeq(text, 1, PreviewLen) \o Ellipsis
    ELSE text

\* summarize_article (identical in both backends), by the fields modelled.
SummarizeArticle(a) ==
    [url |-> a.url,
     word_count |-> a.word_count,
     image_count |-> Len(a.images),
     first_300_chars |-> First300(a.content_text)]

\* analyze_article (identical in both backends), by the fields modelled.
AnalyzeArticle(a) ==
    [word_count |-> a.word_count,
     char_count |-> Len(a.content_text),
     image_count |-> Len(a.images)]

NoSummary == [url |-> NoUrl, word_count |-> -1, image_count |-> -1,
              first_300_chars |-> <<>>]
NoAnalysis == [word_count |-> -1, char_count |-> -1, image_count |-> -1]

\* ------------------------------------------------------------ tool results
\* A returned JSON object: its top-level keys, the error message and
\* exception type of an error object, and the payload of a success.
\* JSON null in the place of a list.
Null == [null |-> TRUE, list |-> <<>>]

NoPayload == [articles |-> <<>>, by_word_count |-> <<>>, by_image_count |-> <<>>,
              total |-> 0, success |-> 0, failed |-> 0, errors |-> Null,
              total_articles |-> 0, successfully_analyzed |-> 0,
              avg_word_count |-> [num |-> 0, den |-> 1],
              article |-> NoArticle, analysis |-> NoAnalysis, summary |-> NoSummary]

NoResult == [keys |-> {}, error |-> "", type |-> "", value |-> NoPayload]

\* {"error": str(e), "type": type(e).__name__}
ErrorResult(e) == [keys |-> {"error", "type"}, error |-> e, type |-> e,
                   value |-> NoPayload]

\* {"error": "..."} as returned by the length checks of compare_articles.
MessageResult(msg) == [keys |-> {"error"}, error |-> msg, type |-> "",
                       value |-> NoPayload]

\* One element of articles_data: {"summary", "analysis"} or {"url", "error"}.
OkEntry(a) ==
    [keys |-> {"summary", "analysis"}, summary |-> SummarizeArticle(a),
     analysis |-> AnalyzeArticle(a), url |-> NoUrl, error |-> ""]

ErrEntry(u, e) ==
    [keys |-> {"url", "error"}, summary |-> NoSummary, analysis |-> NoAnalysis,
     url |-> u, error |-> e]

\* ------------------------------------------------------- compare report
\* An insertion that puts x in front of the elements whose key equals its
\* own: the order of equal keys comes out reversed.
RECURSIVE InsertDesc_Unstable(_, _, _)
InsertDesc_Unstable(sorted, x, f) ==
    IF sorted = <<>> THEN <<x>>
    ELSE IF Head(sorted).analysis[f] > x.analysis[f]
         THEN <<Head(sorted)>> \o InsertDesc_Unstable(Tail(sorted), x, f)
         ELSE <<x>> \o sorted

\* sorted(..., key=..., reverse=True) is stable: an element goes behind every
\* element whose key is greater than or equal to its own.
RECURSIVE InsertDesc(_, _, _)
InsertDesc(sorted, x, f) ==
    IF sorted = <<>> THEN <<x>>
    ELSE IF Head(sorted).analysis[f] >= x.analysis[f]
         THEN <<Head(sorted)>> \o InsertDesc(Tail(sorted), x, f)
         ELSE <<x>> \o sorted

\* sorted(list, key=lambda x: x["analysis"][f], reverse=True)
RECURSIVE SortedDesc(_, _)
SortedDesc(list, f) ==
    IF list = <<>> THEN <<>>
    ELSE InsertDesc(SortedDesc(SubSeq(list, 1, Len(list) - 1), f), list[Len(list)], f)

HasSummary(a) == "summary" \in a.keys
HasAnalysis(a) == "analysis" \in a.keys

RECURSIVE SumWordCount(_)
SumWordCount(list) ==
    IF list = <<>> THEN 0
    ELSE Head(list).analysis.word_count + SumWordCount(Tail(list))

Max(a, b) == IF a > b THEN a ELSE b

\* The mean taken over all the urls given instead of over the successes.
AvgWordCount_OverTotal(data) ==
    [num |-> SumWordCount(SelectSeq(data, HasAnalysis)),
     den |-> Max(Len(data), 1)]

\* sum(word_count of analysed entries) / max(len(analysed entries), 1), kept
\* as the fraction num/den.
AvgWordCount(data) ==
    [num |-> SumWordCount(SelectSeq(data, HasAnalysis)),
     den |-> Max(Len(SelectSeq(data, HasAnalysis)), 1)]

\* The {"articles", "comparison"} object compare_articles returns.
Report(data, given) ==
    [keys |-> {"articles", "comparison"}, error |-> "", type |-> "",
     value |-> [NoPayload EXCEPT
        !.articles = data,
        !.by_word_count = SortedDesc(SelectSeq(data, HasSummary), "word_count"),
        !.by_image_count = SortedDesc(SelectSeq(data, HasSummary), "image_count"),
        !.total_articles = Len(given),
        !.successfully_analyzed = Len(SelectSeq(data, HasSummary)),
        !.avg_word_count = AvgWordCount(data)]]

\* ------------------------------------------------------------ tool inputs
MaxUrls == 6        \* longest url list handed to compare_articles

ToolUrls == {U_mp, U_evil}
UrlLists == UNION {[1..n -> ToolUrls] : n \in 0..MaxUrls}

MaxBatch == 2       \* longest url list handed to batch_crawl_articles

BatchLists == UNION {[1..n -> ToolUrls] : n \in 0..MaxBatch}

\* Pages with many images, around the 20 the lightweight backend considers:
\* MaxGallery - 3 .. MaxGallery img elements, of two kinds alternating.
MaxGallery == 22

GalleryKinds == ImgKinds \cup {Img("", "")}     \* ... and an img with no url

GalleryImgs(n, odd, even) == [k \in 1..n |-> IF k % 2 = 1 THEN odd ELSE even]

GalleryPages ==
    {MkPage(TRUE, FALSE, <<"a">>, GalleryImgs(n, odd, even)) :
        n \in (MaxGallery - 3)..MaxGallery, odd \in GalleryKinds, even \in GalleryKinds}

\* Pages served to the tool operations: articles of 1..MaxText characters
\* without images, and a one-character article with one image.
ToolPages ==
    {MkPage(TRUE, FALSE, [k \in 1..n |-> "a"], <<>>) : n \in 1..MaxText}
    \cup {MkPage(TRUE, FALSE, <<"a">>, <<Img("", "http://img")>>)}

\* What a metadata selector can find: nothing, an element whose text is
\* blank, or an element whose text, once trimmed, names the selector.
ElemStates(s) == {Absent, Elem(<<" ">>), Elem(<<" ", s, " ">>)}

\* The selectors that bear on one metadata field in either backend.
FieldSelectors ==
    {{"h1.rich_media_title", "#activity-name", "h1"},
     {"span.rich_media_meta.rich_media_meta_text", "#js_name", ".profile_nickname",
      ".rich_media_meta_text"},
     {"#js_name", ".profile_nickname", "a.weui-wa-hotarea"},
     {"#publish_time", "em.rich_media_meta.rich_media_meta_text",
      ".rich_media_meta_list em", ".rich_media_meta_text"}}

\* CSS matching: an element that matches a compound selector also matches
\* each of its parts.
Matches(e) ==
    /\ e["h1.rich_media_title"].present => e["h1"].present
    /\ e["span.rich_media_meta.rich_media_meta_text"].present
          => e[".rich_media_meta_text"].present
    /\ e["em.rich_media_meta.rich_media_meta_text"].present
          => e[".rich_media_meta_text"].present

\* Article pages that differ in the elements of one metadata field.
MetaPages ==
    {[MkPage(TRUE, FALSE, <<"a">>, <<>>) EXCEPT !.elems = e] :
        e \in {e \in UNION {{[s \in Selectors |->
                                 IF s \in g THEN f[s] ELSE Absent] :
                               f \in [g -> UNION {ElemStates(s) : s \in g}]} :
                             g \in FieldSelectors} :
                 /\ \A s \in Selectors : e[s] \in ElemStates(s) \cup {Absent}
                 /\ Matches(e)}}

\* The pages a navigation can end up showing, by the name of the site.
Served(s) ==
    IF s = "articles" THEN ToolPages
    ELSE IF s = "galleries" THEN GalleryPages
    ELSE IF s = "profiles" THEN MetaPages
    ELSE Pages

\* The article a url stands for on the site "mirror": its text names the
\* host it was requested from.
PageFor(u) == MkPage(TRUE, FALSE, <<u.host>>, <<>>)

\* What navigating to url u can load.
ServedAt(s, u) == IF s = "mirror" THEN {PageFor(u)} ELSE Served(s)

SingleUrlTools == {"crawl_weixin_article", "analyze_weixin_article",
                   "summarize_weixin_article"}

NoTool == [name |-> "none", phase |-> "idle", download_images |-> FALSE]

\* The settings when the environment sets neither variable:
\* os.getenv("DOWNLOAD_IMAGES", "true"), os.getenv("OUTPUT_DIR", "./downloads").
DefaultEnv == DOWNLOAD_IMAGES = TRUE /\ OUTPUT_DIR = "./downloads"

\* A directory path by its parts: a root, then a name that is either a
\* label or the md5 prefix of a url. NoDir stands for output_dir=None.
Dir(root, name, hashed) == [root |-> root, name |-> name, hashed |-> hashed]

NoDir == Dir("", <<>>, NoUrl)

\* ------------------------------------------------------------------ Init
\* The keyword arguments of a crawl call.
MkArgs(download, dir) == [download_images |-> download, output_dir |-> dir]

NoArgs == MkArgs(FALSE, NoDir)

\* crawl(url) and crawl(url, download_images=True), output_dir left at None.
CrawlArgs == {MkArgs(d, NoDir) : d \in BOOLEAN}

\* A crawl that has not got anywhere yet: no page loaded, no wait timed
\* out, no attribute query issued, no directory made, no image fetched.
NoLog == [loaded |-> FALSE, seen |-> Blank, timedOut |-> FALSE, faulted |-> FALSE,
          attrs |-> 0,
          mkdir |-> "none", fetches |-> <<>>]

\* sanitize_path has not been called.
NoLabel == <<"?">>

InitCore ==
    /\ backend \in Backends
    /\ instance = None
    /\ lock = 0
    /\ nInst = 0
    /\ driver = [i \in Instances |-> "None"]
    /\ initialized = [i \in Instances |-> FALSE]
    /\ launches = 0
    /\ pc = [t \in AllThreads |-> "idle"]
    /\ self = [t \in AllThreads |-> Unbound]
    /\ exc = [t \in AllThreads |-> "none"]
    /\ closed = {}
    /\ since = [t \in AllThreads |-> {}]
    /\ teardown = [i \in Instances |-> "none"]
    /\ stateLoaded = [i \in Instances |-> FALSE]
    /\ page = [i \in Instances |-> Blank]
    /\ url = [t \in AllThreads |-> NoUrl]
    /\ ops = [t \in AllThreads |-> 0]
    /\ args = [t \in AllThreads |-> NoArgs]
    /\ log = [t \in AllThreads |-> NoLog]
    /\ tool = NoTool
    /\ urls = <<>>
    /\ idx = 0
    /\ articles_data = <<>>
    /\ result = NoResult
    /\ outcomes = <<>>
    /\ snap = [nInst |-> 0, launches |-> 0]
    /\ results = <<>>
    /\ errors = <<>>
    /\ sanitized = NoLabel

\* No crawl has returned an article yet.
InitSession == InitCore /\ article = [t \in AllThreads |-> NoArticle]

\* The process as started without a saved browser state file.
Init == InitSession /\ stateFile = FALSE /\ site = "web" /\ DefaultEnv /\ label = <<>>

\* ------------------------------------------------------- get_instance()
\* A caller starts get_instance(); the name it will bind is not bound yet.
BeginGetInstance(t) ==
    /\ pc[t] = "idle"
    /\ pc' = [pc EXCEPT ![t] = "gi_check1"]
    /\ self' = [self EXCEPT ![t] = Unbound]
    /\ exc' = [exc EXCEPT ![t] = "none"]
    /\ since' = [since EXCEPT ![t] = closed]
    /\ UNCHANGED <<crawlVars, backend, sessionVars, closed, teardown>>

CallGetInstance(t) == BeginGetInstance(t) /\ UNCHANGED toolVars

\* `if cls._instance is None:` read without the lock.
GI_Check1(t) ==
    /\ pc[t] = "gi_check1"
    /\ pc' = [pc EXCEPT ![t] = IF instance = None THEN "gi_lock" ELSE "gi_return"]
    /\ UNCHANGED <<crawlVars, backend, sessionVars, self, exc, histVars>>
    /\ UNCHANGED toolVars

\* `with cls._lock:` threading.Lock is not reentrant; blocks while held.
GI_Lock(t) ==
    /\ pc[t] = "gi_lock"
    /\ lock = 0
    /\ lock' = t
    /\ pc' = [pc EXCEPT ![t] = "gi_check2"]
    /\ UNCHANGED <<crawlVars, backend, instance, nInst, driver, initialized, launches,
                   self, exc, histVars>>
    /\ UNCHANGED toolVars

\* get_instance without the re-check inside the lock: always constructs.
GI_Check2_NoRecheck(t) ==
    /\ pc[t] = "gi_check2"
    /\ nInst < MaxInst
    /\ nInst' = nInst + 1
    /\ instance' = nInst + 1
    /\ driver' = [driver EXCEPT ![nInst + 1] = "None"]
    /\ initialized' = [initialized EXCEPT ![nInst + 1] = FALSE]
    /\ pc' = [pc EXCEPT ![t] = IF backend = "selenium" THEN "gi_init" ELSE "gi_unlock"]
    /\ UNCHANGED <<crawlVars, backend, lock, launches, self, exc, histVars>>
    /\ UNCHANGED toolVars

\* `if cls._instance is None: cls._instance = cls()` under the lock.
\* __init__ sets _driver = None, _initialized = False on the new object.
GI_Check2(t) ==
    /\ pc[t] = "gi_check2"
    /\ IF instance = None
       THEN /\ nInst < MaxInst
            /\ nInst' = nInst + 1
            /\ instance' = nInst + 1
            /\ driver' = [driver EXCEPT ![nInst + 1] = "None"]
            /\ initialized' = [initialized EXCEPT ![nInst + 1] = FALSE]
            /\ pc' = [pc EXCEPT ![t] = IF backend = "selenium"
                                       THEN "gi_init" ELSE "gi_unlock"]
       ELSE /\ pc' = [pc EXCEPT ![t] = "gi_unlock"]
            /\ UNCHANGED <<instance, nInst, driver, initialized>>
    /\ UNCHANGED <<crawlVars, backend, lock, launches, self, exc, histVars>>
    /\ UNCHANGED toolVars

\* Outcomes of the try block of _init_browser: the driver starts and is
\* configured, the driver cannot be started, or it starts and
\* set_page_load_timeout raises after self._driver was assigned.
LaunchOutcomes == {"ok", "no_driver", "timeout_setup_failed"}

\* _init_browser() on spider i with outcome o: the new <<driver, initialized>>.
InitBrowserDriver(i, o) ==
    IF o = "no_driver" THEN driver[i] ELSE "Chrome"

InitBrowserInitialized(i, o) ==
    IF o = "ok" THEN TRUE ELSE initialized[i]

\* `cls._instance._init_browser()` still under the lock: the early return
\* `if self._initialized: return` of _init_browser.
GI_Init(t) ==
    /\ pc[t] = "gi_init"
    /\ instance # None
    /\ pc' = [pc EXCEPT ![t] = IF initialized[instance]
                               THEN "gi_unlock" ELSE "gi_launch"]
    /\ UNCHANGED <<crawlVars, backend, sessionVars, self, exc, histVars>>
    /\ UNCHANGED toolVars

\* The try block of _init_browser on the shared spider. An exception leaves
\* the with-block (releasing the lock) and propagates to the caller.
GI_Launch(t) ==
    /\ pc[t] = "gi_launch"
    /\ instance # None
    /\ launches < MaxLaunch
    /\ launches' = launches + 1
    /\ \E o \in LaunchOutcomes :
         /\ page' = [page EXCEPT ![instance] = IF o = "no_driver" THEN @ ELSE Blank]
         /\ driver' = [driver EXCEPT ![instance] = InitBrowserDriver(instance, o)]
         /\ initialized' = [initialized EXCEPT
                              ![instance] = InitBrowserInitialized(instance, o)]
         /\ IF o = "ok"
            THEN /\ pc' = [pc EXCEPT ![t] = "gi_unlock"]
                 /\ UNCHANGED <<lock, exc>>
            ELSE /\ pc' = [pc EXCEPT ![t] = "idle"]
                 /\ lock' = 0
                 /\ exc' = [exc EXCEPT ![t] = "WebDriverException"]
    /\ UNCHANGED <<config, stateLoaded, url, ops, article, args, log, backend, instance, nInst,
                 self, histVars>>
    /\ UNCHANGED toolVars

\* Leaving the with-block releases the lock.
GI_Unlock(t) ==
    /\ pc[t] = "gi_unlock"
    /\ lock = t
    /\ lock' = 0
    /\ pc' = [pc EXCEPT ![t] = "gi_return"]
    /\ UNCHANGED <<crawlVars, backend, instance, nInst, driver, initialized, launches,
                   self, exc, histVars>>
    /\ UNCHANGED toolVars

\* `return cls._instance`: a second unsynchronized read of the handle.
GI_Return(t) ==
    /\ pc[t] = "gi_return"
    /\ self' = [self EXCEPT ![t] = instance]
    /\ pc' = [pc EXCEPT ![t] = "idle"]
    /\ UNCHANGED <<crawlVars, backend, sessionVars, exc, histVars>>
    /\ UNCHANGED toolVars

GetInstanceStep(t) ==
    \/ GI_Check1(t)
    \/ GI_Lock(t)
    \/ GI_Check2(t)
    \/ GI_Init(t)
    \/ GI_Launch(t)
    \/ GI_Unlock(t)
    \/ GI_Return(t)

\* -------------------------------------------------------------- close()
\* A thread calls close() on the spider it holds (the shared one or not).
CallClose(t) ==
    /\ pc[t] = "idle"
    /\ self[t] \in Instances
    /\ pc' = [pc EXCEPT ![t] = IF backend = "selenium" THEN "cl_lock" ELSE "cl_cmd"]
    /\ exc' = [exc EXCEPT ![t] = "none"]
    /\ UNCHANGED <<crawlVars, backend, sessionVars, self, histVars>>
    /\ UNCHANGED toolVars

\* WeixinSpiderAB.close: `self._run_cmd("close", timeout=10)` before the lock.
\* _run_cmd catches every exception and returns (success, output).
TeardownOutcomes == {"ok", "threw"}

CL_Cmd(t) ==
    /\ pc[t] = "cl_cmd"
    /\ \E o \in TeardownOutcomes :
         teardown' = [teardown EXCEPT ![self[t]] = o]
    /\ pc' = [pc EXCEPT ![t] = "cl_lock"]
    /\ UNCHANGED <<crawlVars, backend, sessionVars, self, exc, closed, since>>
    /\ UNCHANGED toolVars

\* `with self._lock:` the class lock, reached through the instance.
CL_Lock(t) ==
    /\ pc[t] = "cl_lock"
    /\ lock = 0
    /\ lock' = t
    /\ pc' = [pc EXCEPT ![t] = IF backend = "selenium" THEN "cl_quit" ELSE "cl_clear"]
    /\ UNCHANGED <<crawlVars, backend, instance, nInst, driver, initialized, launches,
                   self, exc, histVars>>
    /\ UNCHANGED toolVars

\* close() whose quit() is not guarded: a failing quit() leaves the with-block
\* and reaches the caller, before the handle is cleared.
CL_Quit_Propagates(t) ==
    /\ pc[t] = "cl_quit"
    /\ IF driver[self[t]] # "None"
       THEN \E o \in TeardownOutcomes :
              /\ teardown' = [teardown EXCEPT ![self[t]] = o]
              /\ IF o = "ok"
                 THEN /\ driver' = [driver EXCEPT ![self[t]] = "None"]
                      /\ initialized' = [initialized EXCEPT ![self[t]] = FALSE]
                      /\ pc' = [pc EXCEPT ![t] = "cl_clear"]
                      /\ UNCHANGED <<lock, exc>>
                 ELSE /\ pc' = [pc EXCEPT ![t] = "idle"]
                      /\ lock' = 0
                      /\ exc' = [exc EXCEPT ![t] = "WebDriverException"]
                      /\ UNCHANGED <<driver, initialized>>
       ELSE /\ pc' = [pc EXCEPT ![t] = "cl_clear"]
            /\ UNCHANGED <<teardown, driver, initialized, lock, exc>>
    /\ UNCHANGED <<crawlVars, backend, instance, nInst, launches, self, closed, since>>
    /\ UNCHANGED toolVars

\* WeixinSpider.close: `if self._driver:` quit() inside try/except, then
\* _driver = None and _initialized = False whether or not quit() raised.
CL_Quit(t) ==
    /\ pc[t] = "cl_quit"
    /\ IF driver[self[t]] # "None"
       THEN /\ \E o \in TeardownOutcomes :
                 teardown' = [teardown EXCEPT ![self[t]] = o]
            /\ driver' = [driver EXCEPT ![self[t]] = "None"]
            /\ initialized' = [initialized EXCEPT ![self[t]] = FALSE]
       ELSE UNCHANGED <<teardown, driver, initialized>>
    /\ pc' = [pc EXCEPT ![t] = "cl_clear"]
    /\ UNCHANGED <<crawlVars, backend, instance, lock, nInst, launches, self, exc,
                   closed, since>>
    /\ UNCHANGED toolVars

\* `WeixinSpider._instance = None` (both backends) and the end of the
\* with-block; close() returns.
CL_Clear(t) ==
    /\ pc[t] = "cl_clear"
    /\ lock = t
    /\ instance' = None
    /\ lock' = 0
    /\ closed' = closed \cup {self[t]}
    /\ pc' = [pc EXCEPT ![t] = "idle"]
    /\ UNCHANGED <<crawlVars, backend, nInst, driver, initialized, launches, self, exc,
                   since, teardown>>
    /\ UNCHANGED toolVars

CloseStep(t) ==
    \/ CL_Cmd(t)
    \/ CL_Lock(t)
    \/ CL_Quit(t)
    \/ CL_Clear(t)

ClosePcs == {"cl_cmd", "cl_lock", "cl_quit", "cl_clear"}

\* ---------------------------------------------------------- __enter__()
\* `with spider:` on a held spider; only WeixinSpider defines __enter__.
CallEnter(t) ==
    /\ pc[t] = "idle"
    /\ backend = "selenium"
    /\ self[t] \in Instances
    /\ pc' = [pc EXCEPT ![t] = "en_check"]
    /\ exc' = [exc EXCEPT ![t] = "none"]
    /\ UNCHANGED <<crawlVars, backend, sessionVars, self, histVars>>
    /\ UNCHANGED toolVars

\* `if not self._initialized: self._init_browser()` and the early return of
\* _init_browser: two reads of the same flag with nothing in between.
EN_Check(t) ==
    /\ pc[t] = "en_check"
    /\ pc' = [pc EXCEPT ![t] = IF initialized[self[t]] THEN "idle" ELSE "en_launch"]
    /\ UNCHANGED <<crawlVars, backend, sessionVars, self, exc, histVars>>
    /\ UNCHANGED toolVars

\* The try block of _init_browser on the held spider, without the lock.
EN_Launch(t) ==
    /\ pc[t] = "en_launch"
    /\ launches < MaxLaunch
    /\ launches' = launches + 1
    /\ \E o \in LaunchOutcomes :
         /\ page' = [page EXCEPT ![self[t]] = IF o = "no_driver" THEN @ ELSE Blank]
         /\ driver' = [driver EXCEPT ![self[t]] = InitBrowserDriver(self[t], o)]
         /\ initialized' = [initialized EXCEPT
                              ![self[t]] = InitBrowserInitialized(self[t], o)]
         /\ exc' = [exc EXCEPT ![t] = IF o = "ok" THEN "none"
                                      ELSE "WebDriverException"]
    /\ pc' = [pc EXCEPT ![t] = "idle"]
    /\ UNCHANGED <<config, stateLoaded, url, ops, article, args, log, backend, instance, lock,
                 nInst, self, histVars>>
    /\ UNCHANGED toolVars

EnterStep(t) ==
    \/ EN_Check(t)
    \/ EN_Launch(t)

\* --------------------------------------------------------------- crawl()
\* The browser session a spider drives: its own Chrome in WeixinSpider; the
\* one agent-browser session named "weixin_spider" in WeixinSpiderAB.
Sess(i) == IF backend = "ab" THEN 1 ELSE i

\* Ends thread t's current call with exception e.
Raise(t, e) ==
    /\ pc' = [pc EXCEPT ![t] = "idle"]
    /\ exc' = [exc EXCEPT ![t] = e]

\* spider.crawl(url, download_images, output_dir) on the held spider;
\* `article = ArticleContent(url=url)` follows the check of CR_Validate.
BeginCrawl(t, u, a) ==
    /\ pc[t] = "idle"
    /\ self[t] \in Instances
    /\ pc' = [pc EXCEPT ![t] = "cr_validate"]
    /\ exc' = [exc EXCEPT ![t] = "none"]
    /\ url' = [url EXCEPT ![t] = u]
    /\ ops' = [ops EXCEPT ![t] = 0]
    /\ article' = [article EXCEPT ![t] = NoArticle]
    /\ args' = [args EXCEPT ![t] = a]
    /\ log' = [log EXCEPT ![t] = NoLog]
    /\ UNCHANGED <<config, stateLoaded, page, backend, sessionVars, self, histVars>>

CallCrawl(t, u, a) == BeginCrawl(t, u, a) /\ UNCHANGED toolVars

\* crawl that does not check the url before driving the browser.
CR_Validate_Skipped(t) ==
    /\ pc[t] = "cr_validate"
    /\ pc' = [pc EXCEPT ![t] = IF backend = "selenium" THEN "cr_get" ELSE "cr_state"]
    /\ UNCHANGED <<crawlVars, backend, sessionVars, self, exc, histVars>>
    /\ UNCHANGED toolVars

\* `if not self._is_valid_weixin_url(url): raise ValueError(...)`.
CR_Validate(t) ==
    /\ pc[t] = "cr_validate"
    /\ IF IsValidWeixinUrl(url[t])
       THEN /\ pc' = [pc EXCEPT ![t] = IF backend = "selenium"
                                       THEN "cr_get" ELSE "cr_state"]
            /\ UNCHANGED exc
       ELSE Raise(t, "ValueError")
    /\ UNCHANGED <<crawlVars, backend, sessionVars, self, histVars>>
    /\ UNCHANGED toolVars

\* WeixinSpiderAB: `state load` once per spider when BROWSER_STATE_FILE is
\* set and exists; the command's result is ignored.
CR_State(t) ==
    /\ pc[t] = "cr_state"
    /\ IF stateFile /\ ~stateLoaded[self[t]]
       THEN /\ stateLoaded' = [stateLoaded EXCEPT ![self[t]] = TRUE]
            /\ ops' = [ops EXCEPT ![t] = @ + 1]
       ELSE UNCHANGED <<stateLoaded, ops>>
    /\ pc' = [pc EXCEPT ![t] = "cr_open"]
    /\ UNCHANGED <<config, page, url, article, args, log>>
    /\ UNCHANGED <<backend, sessionVars, self, exc, histVars>>
    /\ UNCHANGED toolVars

\* WeixinSpiderAB: `open url`; a command that exits non-zero or runs into
\* the subprocess timeout returns success = False, which raises RuntimeError.
CR_Open(t) ==
    /\ pc[t] = "cr_open"
    /\ ops' = [ops EXCEPT ![t] = @ + 1]
    /\ \/ \E p \in ServedAt(site, url[t]) :
            /\ page' = [page EXCEPT ![Sess(self[t])] = p]
            /\ log' = [log EXCEPT ![t].loaded = TRUE, ![t].seen = p]
            /\ pc' = [pc EXCEPT ![t] = "cr_wait"]
            /\ UNCHANGED exc
       \/ \E expired \in BOOLEAN :
            /\ Raise(t, "RuntimeError")
            /\ log' = [log EXCEPT ![t].timedOut = expired]
            /\ UNCHANGED page
    /\ UNCHANGED <<config, stateLoaded, url, article, args>>
    /\ UNCHANGED <<backend, sessionVars, self, histVars>>
    /\ UNCHANGED toolVars

\* WeixinSpider: `self._driver.get(url)`, which raises TimeoutException when
\* the page load exceeds PAGE_LOAD_TIMEOUT. On a spider whose _driver is
\* None the attribute access raises before anything reaches a browser.
CR_Get(t) ==
    /\ pc[t] = "cr_get"
    /\ IF driver[self[t]] = "None"
       THEN /\ Raise(t, "AttributeError")
            /\ UNCHANGED <<page, ops, log>>
       ELSE /\ ops' = [ops EXCEPT ![t] = @ + 1]
            /\ \/ \E p \in ServedAt(site, url[t]) :
                    /\ page' = [page EXCEPT ![Sess(self[t])] = p]
                    /\ log' = [log EXCEPT ![t].loaded = TRUE, ![t].seen = p]
                    /\ pc' = [pc EXCEPT ![t] = "cr_wait"]
                    /\ UNCHANGED exc
               \/ /\ Raise(t, "TimeoutException")
                  /\ log' = [log EXCEPT ![t].timedOut = TRUE]
                  /\ UNCHANGED page
               \/ /\ Raise(t, "WebDriverException")
                  /\ UNCHANGED <<page, log>>
    /\ UNCHANGED <<config, stateLoaded, url, article, args>>
    /\ UNCHANGED <<backend, sessionVars, self, histVars>>
    /\ UNCHANGED toolVars

CrawlPcs == {"cr_validate", "cr_state", "cr_open", "cr_get", "cr_wait",
             "cr_body", "cr_extract", "cr_download"}

\* crawl that uses the session only while no other thread is inside crawl.
CR_Wait_Exclusive(t) ==
    /\ pc[t] = "cr_wait"
    /\ \A o \in AllThreads \ {t} : pc[o] \notin CrawlPcs
    /\ log' = [log EXCEPT ![t].timedOut = ~page[Sess(self[t])].content,
                          ![t].faulted = backend = "ab" /\ ~page[Sess(self[t])].content]
    /\ IF backend = "selenium"
       THEN /\ ops' = [ops EXCEPT ![t] = @ + 1]
            /\ IF page[Sess(self[t])].content
               THEN /\ pc' = [pc EXCEPT ![t] = "cr_extract"]
                    /\ UNCHANGED exc
               ELSE Raise(t, "TimeoutException")
       ELSE /\ ops' = [ops EXCEPT ![t] = @ + 2]
            /\ pc' = [pc EXCEPT ![t] = "cr_body"]
            /\ UNCHANGED exc
    /\ UNCHANGED <<config, stateLoaded, page, url, article, args>>
    /\ UNCHANGED <<backend, sessionVars, self, histVars>>
    /\ UNCHANGED toolVars

\* WeixinSpider: WebDriverWait(...).until(presence of #js_content) raises
\* TimeoutException when the container never appears. WeixinSpiderAB: the
\* fixed `wait` and `wait #js_content`, which fails when the container
\* never appears; both results are assigned and not looked at.
CR_Wait(t) ==
    /\ pc[t] = "cr_wait"
    /\ log' = [log EXCEPT ![t].timedOut = ~page[Sess(self[t])].content,
                          ![t].faulted = backend = "ab" /\ ~page[Sess(self[t])].content]
    /\ IF backend = "selenium"
       THEN /\ ops' = [ops EXCEPT ![t] = @ + 1]
            /\ IF page[Sess(self[t])].content
               THEN /\ pc' = [pc EXCEPT ![t] = "cr_extract"]
                    /\ UNCHANGED exc
               ELSE Raise(t, "TimeoutException")
       ELSE /\ ops' = [ops EXCEPT ![t] = @ + 2]
            /\ pc' = [pc EXCEPT ![t] = "cr_body"]
            /\ UNCHANGED exc
    /\ UNCHANGED <<config, stateLoaded, page, url, article, args>>
    /\ UNCHANGED <<backend, sessionVars, self, histVars>>
    /\ UNCHANGED toolVars

\* WeixinSpiderAB: `page_text = self._extract_text("body")` and the marker
\* test; a failed command yields "" and so no marker.
CR_Body(t) ==
    /\ pc[t] = "cr_body"
    /\ ops' = [ops EXCEPT ![t] = @ + 1]
    /\ \E cmdOk \in BOOLEAN :
         /\ log' = [log EXCEPT ![t].faulted = @ \/ ~cmdOk]
         /\ IF cmdOk /\ page[Sess(self[t])].challenge
            THEN Raise(t, "RuntimeError")
            ELSE /\ pc' = [pc EXCEPT ![t] = "cr_extract"]
                 /\ UNCHANGED exc
    /\ UNCHANGED <<config, stateLoaded, page, url, article, args>>
    /\ UNCHANGED <<backend, sessionVars, self, histVars>>
    /\ UNCHANGED toolVars

\* `src = img.get_attribute("data-src") or img.get_attribute("src")`.
ResolvedSrc(img) == IF img.data_src # "" THEN img.data_src ELSE img.src

DataSrc(img) == img.data_src

\* `src.startswith("data:")` over the modelled attribute values.
IsDataUrl(src) == src = "data:gif"

\* An image entry without the key "local_path".
NoPath == <<>>

\* The enumerate() positions 0..n-1 of the img elements, as image entries.
Indexed(imgs, attr) ==
    [k \in 1..Len(imgs) |->
        [index |-> k - 1,
         url |-> IF attr = "data-src" THEN DataSrc(imgs[k]) ELSE ResolvedSrc(imgs[k]),
         local_path |-> NoPath]]

\* `if src and not src.startswith("data:")`.
KeepImage(e) == e.url # "" /\ ~IsDataUrl(e.url)

\* WeixinSpider._extract_image_urls: every img of #js_content whose resolved
\* url is non-empty and not a data: url; any exception yields what was
\* collected (nothing, when the container is missing).
ExtractImageUrls(p) ==
    IF p.content THEN SelectSeq(Indexed(p.imgs, "data-src or src"), KeepImage) ELSE <<>>

\* `for i in range(min(count, 20))`.
MaxABImages == 20

Min(a, b) == IF a < b THEN a ELSE b

\* Variant that visits every img element, however many there are.
ExtractImageUrlsAB_Uncapped(p, countOk, failed) ==
    IF ~countOk \/ ~p.content THEN <<>>
    ELSE LET keep(e) == KeepImage(e) /\ e.index \notin failed
         IN SelectSeq(Indexed(p.imgs, "data-src"), keep)

\* WeixinSpiderAB._extract_image_urls: nothing when the count command
\* fails; else the data-src of the first min(count, 20) img elements (the
\* k-th img taken to be the k-th child of its parent), skipping a position
\* whose attribute command failed (failed: the set of those positions).
ExtractImageUrlsAB(p, countOk, failed) ==
    IF ~countOk \/ ~p.content THEN <<>>
    ELSE LET n == Min(Len(p.imgs), MaxABImages)
             keep(e) == KeepImage(e) /\ e.index \notin failed
         IN SelectSeq(Indexed(SubSeq(p.imgs, 1, n), "data-src"), keep)

\* _extract_content_text: `content_elem.text.strip()`, "" when the element
\* cannot be found.
ExtractContentText(p) == IF p.content THEN Strip(p.text) ELSE <<>>

\* The positions whose attribute command fails during one extraction: none,
\* any single one, or all n.
AttrFailures(n) == {{}} \cup {{i} : i \in 0..(n - 1)} \cup {0..(n - 1)}

\* The ordered selector candidates of a metadata field in a backend:
\* WeixinSpider._extract_title, _extract_author, _extract_account_name and
\* _extract_publish_date; the _extract_text calls of WeixinSpiderAB.crawl.
Candidates(be, field) ==
    IF be = "selenium"
    THEN IF field = "title"
         THEN <<"h1.rich_media_title", "#activity-name", "h1">>
         ELSE IF field = "author"
         THEN <<"span.rich_media_meta.rich_media_meta_text", "#js_name",
                ".profile_nickname">>
         ELSE IF field = "account_name"
         THEN <<"#js_name", ".profile_nickname", "a.weui-wa-hotarea">>
         ELSE <<"#publish_time", "em.rich_media_meta.rich_media_meta_text",
                ".rich_media_meta_list em">>
    ELSE IF field = "title" THEN <<"h1.rich_media_title", "#activity-name">>
         ELSE IF field = "author" THEN <<".rich_media_meta_text">>
         ELSE IF field = "account_name" THEN <<"#js_name">>
         ELSE <<"#publish_time">>

\* `elem.text.strip()` of the element selector s finds; "" when it finds
\* none (NoSuchElementException, resp. a `get text` without a match).
TextAt(p, s) == IF p.elems[s].present THEN Strip(p.elems[s].text) ELSE <<>>

\* `for selector in selectors: ... if title: return title ... return ""`.
RECURSIVE FirstMatch(_, _)
FirstMatch(p, cands) ==
    IF cands = <<>> THEN <<>>
    ELSE IF TextAt(p, Head(cands)) # <<>> THEN TextAt(p, Head(cands))
    ELSE FirstMatch(p, Tail(cands))

\* _extract_content_html: the innerHTML of #js_content, "" when the element
\* cannot be found.
ExtractContentHtml(p) ==
    IF p.content THEN <<"<p>">> \o p.text \o <<"</p>">> ELSE <<>>

\* The commands of WeixinSpiderAB's extraction pass, and how one of them can
\* go wrong: a non-zero exit or a timeout ("failed"), or output that is not
\* JSON ("garbled"). At most one command of a pass goes wrong this way; the
\* attribute commands can fail besides (AttrFailures).
AbCommands == {"title", "title2", "author", "account_name", "publish_date",
               "html", "text", "count", "attr"}

NoFault == [cmd |-> "none", kind |-> "none"]

Faults ==
    {NoFault}
    \cup {[cmd |-> c, kind |-> "failed"] : c \in AbCommands \ {"attr"}}
    \cup {[cmd |-> c, kind |-> "garbled"] : c \in AbCommands}

\* _parse_json hands back its input when it cannot parse it, and
\* _extract_text returns `result.strip()` for any str.
Raw == <<"raw output">>

\* _extract_text / _extract_html for command cmd, whose regular answer is
\* value: "" when _run_cmd reports failure, the raw output when the output
\* does not parse.
AbGet(value, fault, cmd) ==
    IF fault.cmd # cmd THEN value
    ELSE IF fault.kind = "failed" THEN <<>> ELSE Raw

\* The metadata fields as WeixinSpiderAB.crawl fills them: the title from
\* h1.rich_media_title, then #activity-name `if not article.title`; the
\* others from one selector each.
AbField(p, field, fault) ==
    IF field = "title"
    THEN LET first == AbGet(TextAt(p, "h1.rich_media_title"), fault, "title")
         IN IF first # <<>> THEN first
            ELSE AbGet(TextAt(p, "#activity-name"), fault, "title2")
    ELSE AbGet(TextAt(p, Candidates("ab", field)[1]), fault, field)

\* The page as the attribute commands show it: an unparseable answer to the
\* first one is taken for the attribute value.
GarbledAttr(p, fault) ==
    IF fault.cmd = "attr" /\ p.imgs # <<>>
    THEN [p EXCEPT !.imgs[1].data_src = "raw output"]
    ELSE p

\* The extraction pass of crawl. WeixinSpider's _extract_* helpers catch
\* every exception; WeixinSpiderAB's return "" or an empty list for a failed
\* command. Queries issued: the metadata fields, html, text and images
\* (WeixinSpiderAB: one count plus one attribute query per image tried).
\* WeixinSpider with download_images goes on to _extract_and_download_images,
\* which returns the list at once when it is empty.
CR_Extract(t) ==
    /\ pc[t] = "cr_extract"
    /\ LET p == page[Sess(self[t])] IN
       IF backend = "selenium"
       THEN /\ article' = [article EXCEPT ![t] =
                   [MkArticle(url[t], ExtractContentText(p), ExtractImageUrls(p))
                      EXCEPT !.title = FirstMatch(p, Candidates("selenium", "title")),
                             !.author = FirstMatch(p, Candidates("selenium", "author")),
                             !.account_name =
                                 FirstMatch(p, Candidates("selenium", "account_name")),
                             !.publish_date =
                                 FirstMatch(p, Candidates("selenium", "publish_date")),
                             !.content_html = ExtractContentHtml(p)]]
            /\ ops' = [ops EXCEPT ![t] = @ + 7]
            /\ pc' = [pc EXCEPT ![t] =
                   IF args[t].download_images /\ ExtractImageUrls(p) # <<>>
                   THEN "cr_download" ELSE "idle"]
            /\ UNCHANGED log
       ELSE \E fault \in Faults,
               failed \in AttrFailures(Min(Len(p.imgs), MaxABImages)) :
              LET countOk == fault.cmd # "count"
                  tried == IF countOk /\ p.content
                           THEN Min(Len(p.imgs), MaxABImages) ELSE 0
              IN /\ ~countOk => failed = {}
                 /\ fault.cmd = "attr" => (tried > 0 /\ 0 \notin failed)
                 /\ article' = [article EXCEPT ![t] =
                        [MkArticle(url[t],
                                   AbGet(ExtractContentText(p), fault, "text"),
                                   ExtractImageUrlsAB(GarbledAttr(p, fault), countOk, failed))
                           EXCEPT !.title = AbField(p, "title", fault),
                                  !.author = AbField(p, "author", fault),
                                  !.account_name = AbField(p, "account_name", fault),
                                  !.publish_date = AbField(p, "publish_date", fault),
                                  !.content_html =
                                      AbGet(ExtractContentHtml(p), fault, "html")]]
                 /\ ops' = [ops EXCEPT ![t] = @ + 7 + tried
                              + (IF AbGet(TextAt(p, "h1.rich_media_title"), fault, "title")
                                      = <<>> THEN 1 ELSE 0)]
                 /\ log' = [log EXCEPT ![t].attrs = tried,
                                       ![t].faulted = @ \/ fault # NoFault \/ failed # {}]
                 /\ pc' = [pc EXCEPT ![t] = "idle"]
    /\ UNCHANGED <<config, stateLoaded, page, url, args>>
    /\ UNCHANGED <<backend, sessionVars, self, exc, histVars>>
    /\ UNCHANGED toolVars

\* How one `requests.get(img["url"], timeout=30)` and the write of its body
\* end: saved; a status other than 200; an exception (timeout included).
FetchOutcomes == {"saved", "status", "raised"}

\* `output_dir` as given, or "./downloads/{md5(article_url)[:8]}".
OutputDir(a, u) ==
    IF a.output_dir = NoDir THEN Dir("./downloads", <<>>, u) ELSE a.output_dir

\* os.path.join(output_dir, f"image_{img['index']:03d}{ext}")
LocalPath(dir, index) == <<dir, index>>

\* The image list after the download loop with outcomes outs.
Downloaded(images, dir, outs) ==
    [k \in 1..Len(images) |->
        IF outs[k] = "saved"
        THEN [images[k] EXCEPT !.local_path = LocalPath(dir, images[k].index)]
        ELSE images[k]]

\* Variant whose download loop has no guard: a fetch that raises ends the
\* crawl with that exception.
CR_Download_Unguarded(t) ==
    /\ pc[t] = "cr_download"
    /\ LET images == article[t].images IN
       \/ /\ Raise(t, "OSError")
          /\ article' = [article EXCEPT ![t] = NoArticle]
          /\ log' = [log EXCEPT ![t].mkdir = "raised"]
       \/ \E outs \in [1..Len(images) -> FetchOutcomes] :
            /\ log' = [log EXCEPT
                         ![t].mkdir = "ok",
                         ![t].fetches = [k \in 1..Len(images) |->
                                            [index |-> images[k].index,
                                             outcome |-> outs[k]]]]
            /\ IF \E k \in 1..Len(images) : outs[k] = "raised"
               THEN /\ Raise(t, "RequestException")
                    /\ article' = [article EXCEPT ![t] = NoArticle]
               ELSE /\ article' = [article EXCEPT
                             ![t].images = Downloaded(images, OutputDir(args[t], url[t]), outs)]
                    /\ pc' = [pc EXCEPT ![t] = "idle"]
                    /\ UNCHANGED exc
    /\ UNCHANGED <<config, stateLoaded, page, url, ops, args>>
    /\ UNCHANGED <<backend, sessionVars, self, histVars>>
    /\ UNCHANGED toolVars

\* WeixinSpider._extract_and_download_images behind the extraction of the
\* list: Path(output_dir).mkdir(...), outside any try, then one guarded
\* download per image, in list order.
CR_Download(t) ==
    /\ pc[t] = "cr_download"
    /\ LET images == article[t].images IN
       \/ /\ Raise(t, "OSError")
          /\ article' = [article EXCEPT ![t] = NoArticle]
          /\ log' = [log EXCEPT ![t].mkdir = "raised"]
       \/ \E outs \in [1..Len(images) -> FetchOutcomes] :
            /\ article' = [article EXCEPT
                             ![t].images = Downloaded(images, OutputDir(args[t], url[t]), outs)]
            /\ log' = [log EXCEPT
                         ![t].mkdir = "ok",
                         ![t].fetches = [k \in 1..Len(images) |->
                                            [index |-> images[k].index,
                                             outcome |-> outs[k]]]]
            /\ pc' = [pc EXCEPT ![t] = "idle"]
            /\ UNCHANGED exc
    /\ UNCHANGED <<config, stateLoaded, page, url, ops, args>>
    /\ UNCHANGED <<backend, sessionVars, self, histVars>>
    /\ UNCHANGED toolVars

CrawlStep(t) ==
    \/ CR_Validate(t)
    \/ CR_State(t)
    \/ CR_Open(t)
    \/ CR_Get(t)
    \/ CR_Wait(t)
    \/ CR_Body(t)
    \/ CR_Extract(t)
    \/ CR_Download(t)

\* ----------------------------------------------- crawl specification
\* One caller acquires the spider of either backend and crawls urls.
InitCrawl ==
    InitSession /\ stateFile \in BOOLEAN /\ site = "web" /\ DefaultEnv /\ label = <<>>

NextCrawl ==
    \/ CallGetInstance(1)
    \/ GetInstanceStep(1)
    \/ \E u \in Urls, a \in CrawlArgs : CallCrawl(1, u, a)
    \/ CrawlStep(1)

SpecCrawl == InitCrawl /\ [][NextCrawl]_vars

\* ---------------------------------------------- image-extraction specification
\* crawl(url, download_images=False) of gallery pages, in both backends.
InitImages ==
    InitSession /\ stateFile = FALSE /\ site = "galleries" /\ DefaultEnv /\ label = <<>>

NextImages ==
    \/ CallGetInstance(1)
    \/ GetInstanceStep(1)
    \/ CallCrawl(1, U_mp, NoArgs)
    \/ CR_Validate(1)
    \/ CR_State(1)
    \/ CR_Open(1)
    \/ CR_Get(1)
    \/ CR_Wait(1)
    \/ CR_Body(1)
    \/ CR_Extract(1)

SpecImages == InitImages /\ [][NextImages]_vars

\* ------------------------------------------------------------------------
\* crawl over pages that differ in their metadata elements
\* ------------------------------------------------------------------------
InitMeta ==
    InitSession /\ stateFile = FALSE /\ site = "profiles" /\ DefaultEnv /\ label = <<>>

NextMeta ==
    \/ CallGetInstance(1)
    \/ GetInstanceStep(1)
    \/ CallCrawl(1, U_mp, NoArgs)
    \/ CR_Validate(1)
    \/ CR_State(1)
    \/ CR_Open(1)
    \/ CR_Get(1)
    \/ CR_Wait(1)
    \/ CR_Body(1)
    \/ CR_Extract(1)

SpecMeta == InitMeta /\ [][NextMeta]_vars

\* ------------------------------------------------------------------------
\* threads that acquire the shared session and crawl on it concurrently
\* ------------------------------------------------------------------------
SharedUrls == {U_mp, U_wx}

\* The two threads that use the shared session at the same time.
Crawlers == {1, 2}

InitShared ==
    InitSession /\ stateFile = FALSE /\ site = "mirror" /\ DefaultEnv /\ label = <<>>

\* The steps of crawl(url) without download_images.
SharedStep(t) ==
    \/ CR_Validate(t)
    \/ CR_State(t)
    \/ CR_Open(t)
    \/ CR_Get(t)
    \/ CR_Wait(t)
    \/ CR_Body(t)
    \/ CR_Extract(t)

NextShared ==
    \E t \in Crawlers :
        \/ CallGetInstance(t)
        \/ GetInstanceStep(t)
        \/ \E u \in SharedUrls : CallCrawl(t, u, NoArgs)
        \/ SharedStep(t)

SpecShared == InitShared /\ [][NextShared]_vars



\* ------------------------------------------------------ sanitize_path
\* Characters a label is made of: letters, a digit, the two characters the
\* second pattern keeps, the three the first pattern replaces, a blank, a
\* punctuation mark and a non-ASCII letter.
LabelChars == {"a", "Z", "7", "-", "_", ".", "/", "\\", " ", "!", "é"}

AsciiLetters ==
    {"a", "b", "c", "d", "e", "f", "g", "h", "i", "j", "k", "l", "m",
     "n", "o", "p", "q", "r", "s", "t", "u", "v", "w", "x", "y", "z",
     "A", "B", "C", "D", "E", "F", "G", "H", "I", "J", "K", "L", "M",
     "N", "O", "P", "Q", "R", "S", "T", "U", "V", "W", "X", "Y", "Z"}

Digits == {"0", "1", "2", "3", "4", "5", "6", "7", "8", "9"}

\* The character class [./\\] of the first substitution.
IsSeparator(c) == c \in {".", "/", "\\"}

\* The complement of the character class [^a-zA-Z0-9_-].
IsKept(c) == c \in AsciiLetters \cup Digits \cup {"_", "-"}

\* re.sub(r'[./\\]', '_', name)
ReplaceSeparators(name) ==
    [k \in 1..Len(name) |-> IF IsSeparator(name[k]) THEN "_" ELSE name[k]]

\* re.sub(r'[^a-zA-Z0-9_-]', '', sanitized)
RemoveUnsafe(s) == SelectSeq(s, IsKept)

\* `sanitized[:100]`.
MaxLabelLen == 100

\* s[:n]
Take(s, n) == SubSeq(s, 1, Min(Len(s), n))

Unnamed == <<"u", "n", "n", "a", "m", "e", "d">>

\* sanitize_path that returns the cleaned label whole.
SanitizePath_Untruncated(name) ==
    LET cleaned == RemoveUnsafe(ReplaceSeparators(name))
    IN IF cleaned # <<>> THEN cleaned ELSE Unnamed

\* sanitize_path(name): `return sanitized[:100] if sanitized else "unnamed"`.
SanitizePath(name) ==
    LET cleaned == RemoveUnsafe(ReplaceSeparators(name))
    IN IF cleaned # <<>> THEN Take(cleaned, MaxLabelLen) ELSE Unnamed

\* ------------------------------------------------------- tool operations
\* server.py runs its tools on WeixinSpider; the tool handler is thread 1 and
\* get_spider() and spider.crawl() are calls made by that thread.
Handler == 1

ToolFrame == UNCHANGED <<crawlVars, backend, sessionVars, self, exc, pc, histVars>>

\* A client invokes one of the tools with a url, or compare_articles with a
\* url list.
ToolCallFrom(lists, labels) ==
    /\ tool.phase = "idle"
    /\ pc[Handler] = "idle"
    /\ \/ \E n \in SingleUrlTools, u \in ToolUrls, d \in BOOLEAN, c \in labels :
            /\ d => n = "crawl_weixin_article"
            /\ c # <<>> => n = "crawl_weixin_article"
            /\ tool' = [name |-> n, phase |-> "start", download_images |-> d]
            /\ urls' = <<u>>
            /\ label' = c
       \/ \E list \in lists :
            /\ tool' = [name |-> "compare_articles", phase |-> "start",
                        download_images |-> FALSE]
            /\ urls' = list
            /\ label' = <<>>
       \/ \E list \in BatchLists, d \in BOOLEAN :
            /\ tool' = [name |-> "batch_crawl_articles", phase |-> "start",
                        download_images |-> d]
            /\ urls' = list
            /\ label' = <<>>
    /\ sanitized' = NoLabel
    /\ idx' = 0
    /\ articles_data' = <<>>
    /\ result' = NoResult
    /\ outcomes' = <<>>
    /\ snap' = [nInst |-> nInst, launches |-> launches]
    /\ ToolFrame
    /\ UNCHANGED batchVars

\* The calls of the tool specification: custom_filename is left out.
ToolCall == ToolCallFrom(UrlLists, {<<>>})

\* `spider = get_spider()`: the first statement of the three single-url tools.
T_GetSpider ==
    /\ tool.phase = "start"
    /\ tool.name \in SingleUrlTools
    /\ BeginGetInstance(Handler)
    /\ tool' = [tool EXCEPT !.phase = "spider"]
    /\ UNCHANGED <<urls, idx, articles_data, result, outcomes, snap>>
    /\ UNCHANGED pathVars
    /\ UNCHANGED batchVars

\* get_spider() is over: an exception goes to the handler's except clause,
\* else `article = spider.crawl(url=url, ...)` is called.
T_Crawl ==
    /\ tool.phase = "spider"
    /\ tool.name \in SingleUrlTools
    /\ pc[Handler] = "idle"
    /\ IF exc[Handler] # "none"
       THEN /\ result' = ErrorResult(exc[Handler])
            /\ tool' = [tool EXCEPT !.phase = "done"]
            /\ UNCHANGED <<crawlVars, backend, sessionVars, self, exc, pc, histVars>>
            /\ UNCHANGED sanitized
       ELSE /\ IF tool.download_images /\ label # <<>>
               THEN /\ sanitized' = SanitizePath(label)
                    /\ BeginCrawl(Handler, urls[1],
                                   MkArgs(tool.download_images /\ DOWNLOAD_IMAGES,
                                          Dir(OUTPUT_DIR, SanitizePath(label), NoUrl)))
               ELSE /\ UNCHANGED sanitized
                    /\ BeginCrawl(Handler, urls[1],
                                   MkArgs(tool.download_images /\ DOWNLOAD_IMAGES, NoDir))
            /\ tool' = [tool EXCEPT !.phase = "crawl"]
            /\ UNCHANGED result
    /\ UNCHANGED <<urls, idx, articles_data, outcomes, snap, label>>
    /\ UNCHANGED batchVars

\* What the tool serialises after a successful crawl.
ToolPayload(n, a) ==
    IF n = "crawl_weixin_article"
    THEN [keys |-> {"url", "content_text", "word_count", "images"},
          error |-> "", type |-> "", value |-> [NoPayload EXCEPT !.article = a]]
    ELSE IF n = "analyze_weixin_article"
    THEN [keys |-> {"content", "analysis"}, error |-> "", type |-> "",
          value |-> [NoPayload EXCEPT !.article = a, !.analysis = AnalyzeArticle(a)]]
    ELSE [keys |-> {"url", "word_count", "image_count", "first_300_chars"},
          error |-> "", type |-> "",
          value |-> [NoPayload EXCEPT !.summary = SummarizeArticle(a)]]

\* spider.crawl() is over: the tool returns the JSON of the article, of the
\* analysis or of the summary, or the error object of its except clause.
T_Return ==
    /\ tool.phase = "crawl"
    /\ tool.name \in SingleUrlTools
    /\ pc[Handler] = "idle"
    /\ outcomes' = Append(outcomes, [url |-> urls[1], exc |-> exc[Handler],
                                     article |-> article[Handler]])
    /\ result' = IF exc[Handler] # "none"
                 THEN ErrorResult(exc[Handler])
                 ELSE ToolPayload(tool.name, article[Handler])
    /\ tool' = [tool EXCEPT !.phase = "done"]
    /\ UNCHANGED <<urls, idx, articles_data, snap>>
    /\ ToolFrame
    /\ UNCHANGED pathVars
    /\ UNCHANGED batchVars

\* compare_articles that acquires the spider before it looks at the list.
CMP_Start_SpiderFirst ==
    /\ tool.phase = "start"
    /\ tool.name = "compare_articles"
    /\ BeginGetInstance(Handler)
    /\ tool' = [tool EXCEPT !.phase = "spider"]
    /\ UNCHANGED <<urls, idx, articles_data, result, outcomes, snap>>
    /\ UNCHANGED pathVars
    /\ UNCHANGED batchVars

\* compare_articles up to `spider = get_spider()`: the two length checks
\* return an error object; otherwise the spider is acquired.
CMP_Start ==
    /\ tool.phase = "start"
    /\ tool.name = "compare_articles"
    /\ IF Len(urls) < 2
       THEN /\ result' = MessageResult("Need at least 2 URLs to compare")
            /\ tool' = [tool EXCEPT !.phase = "done"]
            /\ UNCHANGED <<crawlVars, backend, sessionVars, self, exc, pc, histVars>>
       ELSE IF Len(urls) > 5
       THEN /\ result' = MessageResult("Maximum 5 URLs for comparison")
            /\ tool' = [tool EXCEPT !.phase = "done"]
            /\ UNCHANGED <<crawlVars, backend, sessionVars, self, exc, pc, histVars>>
       ELSE /\ BeginGetInstance(Handler)
            /\ tool' = [tool EXCEPT !.phase = "spider"]
            /\ UNCHANGED result
    /\ UNCHANGED <<urls, idx, articles_data, outcomes, snap>>
    /\ UNCHANGED pathVars
    /\ UNCHANGED batchVars

\* get_spider() is over: an exception reaches the outer except clause, else
\* `articles_data = []` and the for loop starts.
CMP_Spider ==
    /\ tool.phase = "spider"
    /\ tool.name = "compare_articles"
    /\ pc[Handler] = "idle"
    /\ IF exc[Handler] # "none"
       THEN /\ result' = ErrorResult(exc[Handler])
            /\ tool' = [tool EXCEPT !.phase = "done"]
            /\ UNCHANGED idx
       ELSE /\ idx' = 1
            /\ tool' = [tool EXCEPT !.phase = "loop"]
            /\ UNCHANGED result
    /\ UNCHANGED <<urls, articles_data, outcomes, snap>>
    /\ ToolFrame
    /\ UNCHANGED pathVars
    /\ UNCHANGED batchVars

\* `article = spider.crawl(url, download_images=False, wait_time=WAIT_TIME)`
\* for the next url of the list.
CMP_Crawl ==
    /\ tool.phase = "loop"
    /\ tool.name = "compare_articles"
    /\ idx <= Len(urls)
    /\ BeginCrawl(Handler, urls[idx], MkArgs(FALSE, NoDir))
    /\ tool' = [tool EXCEPT !.phase = "crawl"]
    /\ UNCHANGED <<urls, idx, articles_data, result, outcomes, snap>>
    /\ UNCHANGED pathVars
    /\ UNCHANGED batchVars

\* A loop body whose failure is not caught per url: it reaches the outer
\* except clause and ends the comparison.
CMP_Collect_Aborting ==
    /\ tool.phase = "crawl"
    /\ tool.name = "compare_articles"
    /\ pc[Handler] = "idle"
    /\ outcomes' = Append(outcomes, [url |-> urls[idx], exc |-> exc[Handler],
                                     article |-> article[Handler]])
    /\ IF exc[Handler] # "none"
       THEN /\ result' = ErrorResult(exc[Handler])
            /\ tool' = [tool EXCEPT !.phase = "done"]
            /\ UNCHANGED <<articles_data, idx>>
       ELSE /\ articles_data' = Append(articles_data, OkEntry(article[Handler]))
            /\ idx' = idx + 1
            /\ tool' = [tool EXCEPT !.phase = "loop"]
            /\ UNCHANGED result
    /\ UNCHANGED <<urls, snap>>
    /\ ToolFrame
    /\ UNCHANGED pathVars
    /\ UNCHANGED batchVars

\* The rest of the loop body: analysis and summary of the article are
\* appended, or the except clause appends {"url", "error"}.
CMP_Collect ==
    /\ tool.phase = "crawl"
    /\ tool.name = "compare_articles"
    /\ pc[Handler] = "idle"
    /\ outcomes' = Append(outcomes, [url |-> urls[idx], exc |-> exc[Handler],
                                     article |-> article[Handler]])
    /\ articles_data' = Append(articles_data,
                               IF exc[Handler] # "none"
                               THEN ErrEntry(urls[idx], exc[Handler])
                               ELSE OkEntry(article[Handler]))
    /\ idx' = idx + 1
    /\ tool' = [tool EXCEPT !.phase = "loop"]
    /\ UNCHANGED <<urls, result, snap>>
    /\ ToolFrame
    /\ UNCHANGED pathVars
    /\ UNCHANGED batchVars

\* After the loop: the comparison table is built and returned.
CMP_Report ==
    /\ tool.phase = "loop"
    /\ tool.name = "compare_articles"
    /\ idx > Len(urls)
    /\ result' = Report(articles_data, urls)
    /\ tool' = [tool EXCEPT !.phase = "done"]
    /\ UNCHANGED <<urls, idx, articles_data, outcomes, snap>>
    /\ ToolFrame
    /\ UNCHANGED pathVars
    /\ UNCHANGED batchVars

\* The entry batch_crawl_articles appends to errors for a failed url.
BatchError(u, e) == [url |-> u, error |-> e]

\* `"errors": errors if errors else None`
ErrorsOrNull(list) == IF list = <<>> THEN Null ELSE [null |-> FALSE, list |-> list]

\* The output object of batch_crawl_articles.
BatchOutput(given, summaries, failures) ==
    [keys |-> {"total", "success", "failed", "articles", "errors"},
     error |-> "", type |-> "",
     value |-> [NoPayload EXCEPT !.total = Len(given),
                                 !.success = Len(summaries),
                                 !.failed = Len(failures),
                                 !.articles = summaries,
                                 !.errors = ErrorsOrNull(failures)]]

\* batch_crawl_articles: `spider = get_spider()`, its first statement; the
\* url list is not looked at before.
B_Start ==
    /\ tool.phase = "start"
    /\ tool.name = "batch_crawl_articles"
    /\ BeginGetInstance(Handler)
    /\ tool' = [tool EXCEPT !.phase = "spider"]
    /\ UNCHANGED <<urls, idx, articles_data, result, outcomes, snap>>
    /\ UNCHANGED pathVars
    /\ UNCHANGED batchVars

\* get_spider() is over: an exception reaches the outer except clause, else
\* `results = []`, `errors = []` and the for loop starts.
B_Spider ==
    /\ tool.phase = "spider"
    /\ tool.name = "batch_crawl_articles"
    /\ pc[Handler] = "idle"
    /\ IF exc[Handler] # "none"
       THEN /\ result' = ErrorResult(exc[Handler])
            /\ tool' = [tool EXCEPT !.phase = "done"]
            /\ UNCHANGED idx
       ELSE /\ idx' = 1
            /\ tool' = [tool EXCEPT !.phase = "loop"]
            /\ UNCHANGED result
    /\ UNCHANGED <<urls, articles_data, outcomes, snap>>
    /\ ToolFrame
    /\ UNCHANGED pathVars
    /\ UNCHANGED batchVars

\* `article = spider.crawl(url=url, download_images=download_images,
\* wait_time=WAIT_TIME)` for the next url of the list.
B_Crawl ==
    /\ tool.phase = "loop"
    /\ tool.name = "batch_crawl_articles"
    /\ idx <= Len(urls)
    /\ BeginCrawl(Handler, urls[idx], MkArgs(tool.download_images, NoDir))
    /\ tool' = [tool EXCEPT !.phase = "crawl"]
    /\ UNCHANGED <<urls, idx, articles_data, result, outcomes, snap>>
    /\ UNCHANGED pathVars
    /\ UNCHANGED batchVars

\* A loop body without its own except clause: a failed crawl reaches the
\* outer one and ends the batch with an error object.
B_Collect_Aborting ==
    /\ tool.phase = "crawl"
    /\ tool.name = "batch_crawl_articles"
    /\ pc[Handler] = "idle"
    /\ outcomes' = Append(outcomes, [url |-> urls[idx], exc |-> exc[Handler],
                                     article |-> article[Handler]])
    /\ IF exc[Handler] # "none"
       THEN /\ result' = ErrorResult(exc[Handler])
            /\ tool' = [tool EXCEPT !.phase = "done"]
            /\ UNCHANGED <<results, idx>>
       ELSE /\ results' = Append(results, SummarizeArticle(article[Handler]))
            /\ idx' = idx + 1
            /\ tool' = [tool EXCEPT !.phase = "loop"]
            /\ UNCHANGED result
    /\ UNCHANGED <<urls, articles_data, errors, snap>>
    /\ ToolFrame
    /\ UNCHANGED pathVars

\* The rest of the loop body: the summary of the article is appended to
\* results, or the except clause appends {"url", "error"} to errors.
B_Collect ==
    /\ tool.phase = "crawl"
    /\ tool.name = "batch_crawl_articles"
    /\ pc[Handler] = "idle"
    /\ outcomes' = Append(outcomes, [url |-> urls[idx], exc |-> exc[Handler],
                                     article |-> article[Handler]])
    /\ IF exc[Handler] # "none"
       THEN /\ errors' = Append(errors, BatchError(urls[idx], exc[Handler]))
            /\ UNCHANGED results
       ELSE /\ results' = Append(results, SummarizeArticle(article[Handler]))
            /\ UNCHANGED errors
    /\ idx' = idx + 1
    /\ tool' = [tool EXCEPT !.phase = "loop"]
    /\ UNCHANGED <<urls, articles_data, result, snap>>
    /\ ToolFrame
    /\ UNCHANGED pathVars

\* After the loop: the output object is built and returned.
B_Output ==
    /\ tool.phase = "loop"
    /\ tool.name = "batch_crawl_articles"
    /\ idx > Len(urls)
    /\ result' = BatchOutput(urls, results, errors)
    /\ tool' = [tool EXCEPT !.phase = "done"]
    /\ UNCHANGED <<urls, idx, articles_data, outcomes, snap>>
    /\ ToolFrame
    /\ UNCHANGED pathVars
    /\ UNCHANGED batchVars

\* The returned JSON is delivered to the client and the handler's frame,
\* with the locals of the calls it made, is gone; the session stays.
ToolDone ==
    /\ tool.phase = "done"
    /\ tool' = NoTool
    /\ urls' = <<>>
    /\ idx' = 0
    /\ articles_data' = <<>>
    /\ result' = NoResult
    /\ outcomes' = <<>>
    /\ snap' = [nInst |-> 0, launches |-> 0]
    /\ url' = [url EXCEPT ![Handler] = NoUrl]
    /\ ops' = [ops EXCEPT ![Handler] = 0]
    /\ article' = [article EXCEPT ![Handler] = NoArticle]
    /\ args' = [args EXCEPT ![Handler] = NoArgs]
    /\ log' = [log EXCEPT ![Handler] = NoLog]
    /\ exc' = [exc EXCEPT ![Handler] = "none"]
    /\ results' = <<>>
    /\ errors' = <<>>
    /\ label' = <<>>
    /\ sanitized' = NoLabel
    /\ UNCHANGED <<config, stateLoaded, page, backend, sessionVars, self, pc, histVars>>

\* ------------------------------------------------- tool specification
InitTool ==
    /\ InitSession
    /\ backend = "selenium"
    /\ stateFile = FALSE
    /\ site = "articles"
    /\ DefaultEnv
    /\ label = <<>>

NextTool ==
    \/ ToolCall
    \/ T_GetSpider
    \/ T_Crawl
    \/ T_Return
    \/ CMP_Start
    \/ CMP_Spider
    \/ CMP_Crawl
    \/ CMP_Collect
    \/ CMP_Report
    \/ B_Start
    \/ B_Spider
    \/ B_Crawl
    \/ B_Collect
    \/ B_Output
    \/ ToolDone
    \/ GetInstanceStep(Handler)
    \/ CR_Validate(Handler)
    \/ CR_Get(Handler)
    \/ CR_Wait(Handler)
    \/ CR_Extract(Handler)
    \/ CR_Download(Handler)

SpecTool == InitTool /\ [][NextTool]_vars

\* ---------------------------------------- server-settings specification
\* The tools under any setting of DOWNLOAD_IMAGES and OUTPUT_DIR, with and
\* without a custom_filename, over url lists of at most MaxBatch urls.
Roots == {"./downloads", "/data/out"}

ToolLabels == {<<>>, <<"a">>, <<".", ".", "/">>}

InitConfig ==
    /\ InitSession
    /\ backend = "selenium"
    /\ stateFile = FALSE
    /\ site = "articles"
    /\ DOWNLOAD_IMAGES \in BOOLEAN
    /\ OUTPUT_DIR \in Roots
    /\ label = <<>>

ConfigCall == ToolCallFrom(BatchLists, ToolLabels)

NextConfig ==
    \/ ConfigCall
    \/ T_GetSpider
    \/ T_Crawl
    \/ T_Return
    \/ CMP_Start
    \/ CMP_Spider
    \/ CMP_Crawl
    \/ CMP_Collect
    \/ CMP_Report
    \/ B_Start
    \/ B_Spider
    \/ B_Crawl
    \/ B_Collect
    \/ B_Output
    \/ ToolDone
    \/ GetInstanceStep(Handler)
    \/ CR_Validate(Handler)
    \/ CR_Get(Handler)
    \/ CR_Wait(Handler)
    \/ CR_Extract(Handler)
    \/ CR_Download(Handler)

SpecConfig == InitConfig /\ [][NextConfig]_vars

\* ------------------------------------------- summarizer specification
SumMaxLen == 304    \* longest content_text handed to summarize_article

\* A text of n characters, all equal to c.
TextOf(n, c) == [k \in 1..n |-> c]

\* Populated articles: word_count is the length of content_text.
SumArticles ==
    {MkArticle(U_mp, TextOf(n, c), <<>>) : n \in 0..SumMaxLen, c \in {"a", "."}}

InitSummarize ==
    /\ InitCore
    /\ \E a \in SumArticles :
         article = [t \in AllThreads |-> IF t = Handler THEN a ELSE NoArticle]
    /\ stateFile = FALSE
    /\ site = "web"
    /\ DefaultEnv
    /\ label = <<>>

\* spider.summarize_article(article) of either backend on the given article.
ApplySummarize ==
    /\ tool.phase = "idle"
    /\ tool' = [name |-> "summarize_article", phase |-> "done",
                download_images |-> FALSE]
    /\ result' = [keys |-> {"url", "word_count", "image_count", "first_300_chars"},
                  error |-> "", type |-> "",
                  value |-> [NoPayload EXCEPT
                               !.summary = SummarizeArticle(article[Handler])]]
    /\ UNCHANGED <<urls, idx, articles_data, outcomes, snap>>
    /\ ToolFrame
    /\ UNCHANGED pathVars
    /\ UNCHANGED batchVars

NextSummarize == ApplySummarize

SpecSummarize == InitSummarize /\ [][NextSummarize]_vars

\* -------------------------------------- sanitize_path specification
MaxLabelHead == 2   \* leading characters of a label, chosen freely
MaxLabelTail == 101 \* length of the run of one character that follows them

LabelHeads == UNION {[1..n -> LabelChars] : n \in 0..MaxLabelHead}

\* The labels handed to sanitize_path.
Labels ==
    {h \o TextOf(n, c) : h \in LabelHeads, n \in 0..MaxLabelTail, c \in {"a", "."}}

InitSanitize ==
    /\ InitSession
    /\ backend = "selenium"
    /\ stateFile = FALSE
    /\ site = "web"
    /\ DefaultEnv
    /\ label \in Labels

\* `safe_filename = sanitize_path(custom_filename)`.
ApplySanitize ==
    /\ sanitized = NoLabel
    /\ sanitized' = SanitizePath(label)
    /\ UNCHANGED <<label, tool, urls, idx, articles_data, result, outcomes, snap>>
    /\ UNCHANGED batchVars
    /\ ToolFrame

NextSanitize == ApplySanitize

SpecSanitize == InitSanitize /\ [][NextSanitize]_vars

\* ------------------------------------- session-lifecycle specification
\* Any interleaving of get_instance(), close() and __enter__() by Threads.
Next ==
    \E t \in Threads :
        \/ CallGetInstance(t)
        \/ GetInstanceStep(t)
        \/ CallClose(t)
        \/ CloseStep(t)
        \/ CallEnter(t)
        \/ EnterStep(t)

Spec == Init /\ [][Next]_vars

\* ------------------------------------------ acquire-only specification
NextAcquire ==
    \E t \in Callers : CallGetInstance(t) \/ GetInstanceStep(t)

SpecAcquire == Init /\ [][NextAcquire]_vars

\* ================================================================ claims

\* C1: when threads call get_instance() concurrently while no session
\* exists, the constructor runs once, the browser launch of _init_browser
\* runs once (full-browser backend: never twice, and once by the time no
\* call is in progress), and every caller that get_instance() returns to
\* holds that one instance.
C1_SingleConstruction ==
    /\ nInst <= 1
    /\ launches <= (IF backend = "selenium" THEN 1 ELSE 0)
    /\ \A t \in Callers :
         (pc[t] = "idle" /\ (self[t] # Unbound \/ exc[t] # "none")) =>
             /\ nInst = 1
             /\ self[t] # Unbound => self[t] = 1
    /\ (backend = "selenium" /\ nInst = 1 /\ \A t \in Callers : pc[t] = "idle")
           => launches = 1

\* Two callers hold the instance while a third, which saw no session on the
\* fast path, is still waiting to re-check under the lock.
C1_Witness ==
    \E t1, t2, t3 \in Callers :
        /\ t1 # t2
        /\ pc[t1] = "idle" /\ self[t1] = 1
        /\ pc[t2] = "idle" /\ self[t2] = 1
        /\ pc[t3] = "gi_lock"

HoldsLiveDriver(i) == driver[i] = "Chrome"

\* C2: exactly one session exists at any instant: never two spiders that
\* each hold a live driver, and a spider whose driver is live is the one the
\* shared handle points at.
C2_ExactlyOneSession ==
    /\ Cardinality({i \in Instances : HoldsLiveDriver(i)}) <= 1
    /\ \A i \in Instances : HoldsLiveDriver(i) => instance = i

\* C3: close() never raises and always clears the shared handle, whether
\* the backend teardown succeeded or threw; a get_instance() begun after a
\* close() returned yields an instance other than the closed one.
C3_CloseInvalidates ==
    /\ [][\A t \in Threads :
            (pc[t] \in ClosePcs /\ pc'[t] = "idle") =>
                /\ instance' = None
                /\ exc'[t] = "none"
                /\ self[t] \in closed']_vars
    /\ [](instance \notin closed)
    /\ [](\A t \in Threads :
            (pc[t] = "idle" /\ self[t] \in Instances) => self[t] \notin since[t])

\* A spider whose teardown threw was closed, and a later get_instance()
\* returned a different, newly constructed spider.
C3_Witness ==
    \E t \in Threads, i \in Instances :
        /\ i \in since[t]
        /\ teardown[i] = "threw"
        /\ pc[t] = "idle"
        /\ self[t] \in Instances
        /\ self[t] > i

\* The hosts of the allow-list, and the host component of a url.
AllowedHosts == {"mp.weixin.qq.com", "weixin.qq.com"}

HostOf(u) == IF u.authority THEN u.host ELSE ""

\* C4: crawl(url) with a url whose host is not allow-listed never gets past
\* the url check: it ends with ValueError and has issued no backend
\* operation (navigate, wait, DOM query, state load), in both backends.
C4_ValidationBeforeBackend ==
    /\ [](\A t \in {Handler} :
            (pc[t] \in CrawlPcs /\ HostOf(url[t]) \notin AllowedHosts) =>
                (pc[t] = "cr_validate" /\ ops[t] = 0))
    /\ [][\A t \in {Handler} :
            (/\ pc[t] = "cr_validate"
             /\ HostOf(url[t]) \notin AllowedHosts
             /\ pc'[t] # "cr_validate") =>
                /\ pc'[t] = "idle"
                /\ exc'[t] = "ValueError"
                /\ ops'[t] = 0
                /\ article'[t] = NoArticle
                /\ page' = page
                /\ stateLoaded' = stateLoaded]_vars

\* The lightweight backend, with a state file waiting to be loaded, has
\* rejected a url whose host merely starts with an allow-listed name.
C4_Witness ==
    /\ backend = "ab"
    /\ stateFile
    /\ pc[Handler] = "idle"
    /\ exc[Handler] = "ValueError"
    /\ url[Handler] = U_sub
    /\ self[Handler] \in Instances
    /\ ~stateLoaded[self[Handler]]
    /\ ops[Handler] = 0

\* C5: a single-url tool invocation that ends in the validation error of a
\* non-allow-listed url has created no spider and launched no browser.
C5_NoBackendOnValidationError ==
    (/\ tool.phase = "done"
     /\ tool.name \in SingleUrlTools
     /\ result.type = "ValueError") =>
        /\ nInst = snap.nInst
        /\ launches = snap.launches

LengthErrors == {"Need at least 2 URLs to compare", "Maximum 5 URLs for comparison"}

\* C6: compare_articles with fewer than 2 or more than 5 urls returns an
\* error object without acquiring a session or calling crawl; with 2 to 5
\* urls it is not rejected for its length and, once the spider is acquired,
\* crawls every url.
C6_CompareLengthCheck ==
    tool.name = "compare_articles" =>
        /\ (Len(urls) < 2 \/ Len(urls) > 5) =>
              /\ tool.phase \in {"start", "done"}
              /\ pc[Handler] = "idle"
              /\ url[Handler] = NoUrl
              /\ outcomes = <<>>
              /\ nInst = snap.nInst
              /\ launches = snap.launches
              /\ tool.phase = "done" =>
                    ("error" \in result.keys /\ result.error \in LengthErrors)
        /\ (Len(urls) \in 2..5 /\ tool.phase = "done") =>
              /\ result.error \notin LengthErrors
              /\ "error" \in result.keys => (outcomes = <<>> /\ exc[Handler] # "none")
              /\ "error" \notin result.keys => Len(outcomes) = Len(urls)

\* Six urls were rejected while a session was already live.
C6_Witness ==
    /\ tool.name = "compare_articles"
    /\ tool.phase = "done"
    /\ Len(urls) = 6
    /\ result.keys = {"error"}
    /\ instance # None
    /\ driver[instance] = "Chrome"

\* compare_articles has returned for a list of 2..5 urls after get_spider()
\* gave it a spider.
CompareRan ==
    /\ tool.name = "compare_articles"
    /\ tool.phase = "done"
    /\ Len(urls) \in 2..5
    /\ ~(outcomes = <<>> /\ exc[Handler] # "none")

Count(list, e) == Cardinality({k \in 1..Len(list) : list[k] = e})

Failed(k) == outcomes[k].exc # "none"

\* C7: whatever crawls fail, compare_articles attempts every url once, in
\* input order, returns a report, gives each failed url one error entry
\* carrying that url, and each succeeded url one entry in by_word_count and
\* one in by_image_count.
C7_PartialFailure ==
    CompareRan =>
        LET data == result.value.articles
            byWc == result.value.by_word_count
            byIc == result.value.by_image_count
            good == {k \in 1..Len(urls) : ~Failed(k)}
        IN /\ result.keys = {"articles", "comparison"}
           /\ Len(outcomes) = Len(urls)
           /\ \A k \in 1..Len(urls) : outcomes[k].url = urls[k]
           /\ Len(data) = Len(urls)
           /\ \A k \in 1..Len(urls) :
                IF Failed(k)
                THEN /\ data[k].keys = {"url", "error"}
                     /\ data[k].url = urls[k]
                     /\ data[k].error = outcomes[k].exc
                ELSE /\ data[k].keys = {"summary", "analysis"}
                     /\ data[k].summary.url = urls[k]
           /\ Len(byWc) = Cardinality(good)
           /\ Len(byIc) = Cardinality(good)
           /\ \A k \in good :
                /\ Count(byWc, data[k]) = Cardinality({j \in good : data[j] = data[k]})
                /\ Count(byIc, data[k]) = Cardinality({j \in good : data[j] = data[k]})

\* Of two urls the first failed in the backend and the second succeeded.
C7_Witness ==
    /\ CompareRan
    /\ Len(urls) = 2
    /\ outcomes[1].exc = "WebDriverException"
    /\ outcomes[2].exc = "none"
    /\ Len(result.value.by_word_count) = 1
    /\ Len(result.value.by_image_count) = 1

NonIncreasing(list, f) ==
    \A i, j \in 1..Len(list) : i < j => list[i].analysis[f] >= list[j].analysis[f]

\* The entries of list whose key f equals v, in the order of list.
WithKey(list, f, v) ==
    LET T(e) == e.analysis[f] = v IN SelectSeq(list, T)

KeysOf(list, f) == {list[k].analysis[f] : k \in 1..Len(list)}

\* list is ranked by f, descending, entries of equal key in input order.
StablyRanked(ranked, input, f) ==
    /\ NonIncreasing(ranked, f)
    /\ Len(ranked) = Len(input)
    /\ \A v \in KeysOf(input, f) \cup KeysOf(ranked, f) :
         WithKey(ranked, f, v) = WithKey(input, f, v)

\* C8: by_word_count and by_image_count list the analysed articles in
\* non-increasing word count, resp. image count, and articles of equal key
\* keep their input order.
C8_StableRanking ==
    CompareRan =>
        LET good == SelectSeq(result.value.articles, HasSummary)
        IN /\ StablyRanked(result.value.by_word_count, good, "word_count")
           /\ StablyRanked(result.value.by_image_count, good, "image_count")

\* Ranking by word count moved an article forward, and two different
\* articles of equal word count are in the ranking.
C8_Witness ==
    /\ CompareRan
    /\ LET good == SelectSeq(result.value.articles, HasSummary)
           byWc == result.value.by_word_count
       IN /\ byWc # good
          /\ \E i, j \in 1..Len(byWc) :
               /\ i < j
               /\ byWc[i] # byWc[j]
               /\ byWc[i].analysis.word_count = byWc[j].analysis.word_count

RECURSIVE WordsCrawled(_)
WordsCrawled(crawls) ==
    IF crawls = <<>> THEN 0
    ELSE (IF Head(crawls).exc = "none" THEN Head(crawls).article.word_count ELSE 0)
         + WordsCrawled(Tail(crawls))

Succeeded == {k \in 1..Len(outcomes) : ~Failed(k)}

\* C9: avg_word_count is the word counts of the succeeded crawls summed,
\* over max(number of successes, 1): failures count in neither, and with
\* no success the value is 0 over 1.
C9_AverageWordCount ==
    CompareRan =>
        LET avg == result.value.avg_word_count
        IN /\ avg.num = WordsCrawled(outcomes)
           /\ avg.den = (IF Succeeded = {} THEN 1 ELSE Cardinality(Succeeded))
           /\ avg.den >= 1
           /\ Succeeded = {} => avg.num = 0
           /\ result.value.successfully_analyzed = Cardinality(Succeeded)

\* A report over failures and successes together.
C9_Witness ==
    /\ CompareRan
    /\ Succeeded # {}
    /\ Cardinality(Succeeded) < Len(urls)
    /\ result.value.avg_word_count.num > result.value.avg_word_count.den

\* C10: first_300_chars is at most 303 characters long; it is content_text
\* itself when that has at most 300 characters, and its first 300
\* characters followed by "..." when it has more.
C10_Preview ==
    (tool.name = "summarize_article" /\ tool.phase = "done") =>
        LET text == article[Handler].content_text
            out == result.value.summary.first_300_chars
        IN /\ Len(out) <= 303
           /\ Len(text) <= 300 => out = text
           /\ Len(text) > 300 =>
                /\ Len(out) = 303
                /\ \A k \in 1..300 : out[k] = text[k]
                /\ \A k \in 301..303 : out[k] = "."

\* A text of 301 characters came back as 300 characters and the ellipsis.
C10_Witness ==
    /\ tool.name = "summarize_article"
    /\ tool.phase = "done"
    /\ Len(article[Handler].content_text) = 301
    /\ article[Handler].content_text[301] = "a"
    /\ Len(result.value.summary.first_300_chars) = 303
    /\ result.value.summary.first_300_chars[301] = "."

\* C11: whatever the label, sanitize_path returns a non-empty string of at
\* most 100 characters, each an ASCII letter, a digit, '-' or '_'; it holds
\* no '.', '/' or '\', so as a path component it names a direct child of
\* the directory it is joined to.
C11_SanitizedIsSafe ==
    sanitized # NoLabel =>
        /\ Len(sanitized) >= 1
        /\ Len(sanitized) <= 100
        /\ \A k \in 1..Len(sanitized) :
             /\ sanitized[k] \in AsciiLetters \cup Digits \cup {"-", "_"}
             /\ sanitized[k] \notin {".", "/", "\\"}

\* A label of more than 100 characters that starts with "../" was cut to
\* 100 characters.
C11_Witness ==
    /\ Len(label) > 100
    /\ label[1] = "." /\ label[2] = "/"
    /\ sanitized # NoLabel
    /\ Len(sanitized) = 100
    /\ sanitized[1] = "_"

\* C12: an empty label, and a label without any letter or digit (such as
\* one made only of '.', '/' or '\'), is sanitized to "unnamed".
C12_PunctuationIsUnnamed ==
    (/\ sanitized # NoLabel
     /\ \A k \in 1..Len(label) : label[k] \notin AsciiLetters \cup Digits) =>
        sanitized = Unnamed

\* Thread t's last crawl call returned an article.
Returned(t) == pc[t] = "idle" /\ exc[t] = "none" /\ article[t] # NoArticle

\* C13: in every article crawl returns, the index values of images count
\* up from 0 without gaps: images[k].index = k at every position k.
C13_ImageIndexContiguous ==
    \A t \in {Handler} :
        Returned(t) =>
            \A k \in 1..Len(article[t].images) : article[t].images[k].index = k - 1

\* C14: every article crawl returns has word_count = len(content_text), and
\* analyze_article reports that same number as word_count and as char_count.
C14_WordCountIsLength ==
    \A t \in {Handler} :
        Returned(t) =>
            /\ article[t].word_count = Len(article[t].content_text)
            /\ AnalyzeArticle(article[t]).word_count = Len(article[t].content_text)
            /\ AnalyzeArticle(article[t]).word_count
                  = AnalyzeArticle(article[t]).char_count

\* The lightweight backend returned an article whose text lost a blank to
\* strip() and has one character left.
C14_Witness ==
    /\ backend = "ab"
    /\ Returned(Handler)
    /\ Len(page[Sess(self[Handler])].text) > Len(article[Handler].content_text)
    /\ article[Handler].word_count = 1

\* The positions (from 0) of the img elements of page p that have a
\* non-empty resolved url which is not a data: url.
Usable(p) ==
    {k \in 0..(Len(p.imgs) - 1) :
        /\ ResolvedSrc(p.imgs[k + 1]) # ""
        /\ ~IsDataUrl(ResolvedSrc(p.imgs[k + 1]))}

\* C15: the lightweight backend returns at most 20 image entries and issues
\* at most 20 per-image attribute queries, however many img elements the
\* page has; the full-browser backend returns one entry for every img
\* element whose resolved url is non-empty and not a data: url, and only
\* those, with no upper bound.
C15_ImageBound ==
    \A t \in {Handler} : Returned(t) =>
        LET images == article[t].images
            p == log[t].seen
        IN IF backend = "ab"
           THEN /\ Len(images) <= 20
                /\ log[t].attrs <= 20
           ELSE /\ Len(images) = Cardinality(Usable(p))
                /\ \A k \in Usable(p) : \E j \in 1..Len(images) :
                       /\ images[j].index = k
                       /\ images[j].url = ResolvedSrc(p.imgs[k + 1])
                /\ \A i, j \in 1..Len(images) :
                       i < j => images[i].index < images[j].index

\* A page of more than 20 usable images gave 20 entries after 20 attribute
\* queries.
C15_Witness ==
    /\ backend = "ab"
    /\ Returned(Handler)
    /\ Len(log[Handler].seen.imgs) > 20
    /\ Len(article[Handler].images) = 20
    /\ log[Handler].attrs = 20

\* C16: when the download of an image fails (exception, timeout or a status
\* other than 200), crawl still returns the article with every extracted
\* image entry, in order; every image was attempted; the failed ones have
\* no local_path and the saved ones the path of their own index; nothing
\* is raised.
C16_FailedDownloadIsolated ==
    \A t \in {Handler} :
        (/\ pc[t] = "idle"
         /\ \E k \in 1..Len(log[t].fetches) : log[t].fetches[k].outcome # "saved") =>
            LET found == ExtractImageUrls(log[t].seen)
                fetches == log[t].fetches
            IN /\ exc[t] = "none"
               /\ article[t] # NoArticle
               /\ Len(article[t].images) = Len(found)
               /\ Len(fetches) = Len(found)
               /\ \A k \in 1..Len(found) :
                    /\ article[t].images[k].index = found[k].index
                    /\ article[t].images[k].url = found[k].url
                    /\ fetches[k].index = found[k].index
                    /\ article[t].images[k].local_path =
                          (IF fetches[k].outcome = "saved"
                           THEN LocalPath(OutputDir(args[t], url[t]), found[k].index)
                           ELSE NoPath)

\* Of two images the first fetch raised and the second was saved.
C16_Witness ==
    /\ pc[Handler] = "idle"
    /\ exc[Handler] = "none"
    /\ Len(log[Handler].fetches) = 2
    /\ log[Handler].fetches[1].outcome = "raised"
    /\ log[Handler].fetches[2].outcome = "saved"
    /\ article[Handler].images[1].local_path = NoPath
    /\ article[Handler].images[2].local_path # NoPath

\* What crawl raises for a wait that ran out, and for a backend that failed:
\* selenium's TimeoutException; WeixinSpiderAB's RuntimeError for a failed
\* `open` and selenium's WebDriverException.
TimeoutKinds == {"TimeoutException"}

BackendErrorKinds == {"RuntimeError", "WebDriverException"}

\* C17: a crawl whose loaded page carries a challenge marker in its body
\* ends in a failure, and one of a kind that is neither the timeout kind nor
\* the backend-error kind.
C17_BlockedIsDistinct ==
    \A t \in {Handler} :
        (pc[t] = "idle" /\ log[t].loaded /\ log[t].seen.challenge) =>
            /\ exc[t] # "none"
            /\ exc[t] \notin TimeoutKinds \cup BackendErrorKinds

\* C18: a crawl one of whose waits (page load, wait for #js_content, a
\* subprocess call) ran out ends in the timeout failure and returns no
\* article.
C18_TimeoutIsFailure ==
    \A t \in {Handler} :
        (pc[t] = "idle" /\ log[t].timedOut) =>
            /\ exc[t] \in TimeoutKinds
            /\ article[t] = NoArticle

Tools == SingleUrlTools \cup {"compare_articles", "batch_crawl_articles"}

\* get_spider() raised in the tool in progress: no crawl was issued.
SpiderFailed == outcomes = <<>> /\ exc[Handler] # "none"

\* The tool operation in progress failed as a whole: a single-url tool whose
\* get_spider() or crawl raised; compare_articles with a list outside 2..5
\* or a failed get_spider(); batch_crawl_articles with a failed get_spider().
WholeFailed ==
    IF tool.name \in SingleUrlTools THEN exc[Handler] # "none"
    ELSE IF tool.name = "compare_articles"
    THEN Len(urls) < 2 \/ Len(urls) > 5 \/ SpiderFailed
    ELSE SpiderFailed

\* The top-level keys of the object a tool returns when it succeeds.
SuccessKeys(n) ==
    IF n = "crawl_weixin_article" THEN {"url", "content_text", "word_count", "images"}
    ELSE IF n = "analyze_weixin_article" THEN {"content", "analysis"}
    ELSE IF n = "summarize_weixin_article"
    THEN {"url", "word_count", "image_count", "first_300_chars"}
    ELSE IF n = "compare_articles" THEN {"articles", "comparison"}
    ELSE {"total", "success", "failed", "articles", "errors"}

\* C19: each of the five tool operations ends by returning a JSON object,
\* whatever get_spider() and the crawls did; the object has the key "error"
\* exactly when the operation failed as a whole, and else the keys of the
\* tool's result.
C19_AlwaysJsonObject ==
    (tool.phase = "done" /\ tool.name \in Tools) =>
        /\ result # NoResult
        /\ result.keys # {}
        /\ "error" \in result.keys <=> WholeFailed
        /\ "error" \notin result.keys => result.keys = SuccessKeys(tool.name)
        /\ "error" \in result.keys => result.error # ""

\* A batch of two urls, the first rejected and the second crawled, came back
\* without a top-level error.
C19_Witness ==
    /\ tool.phase = "done"
    /\ tool.name = "batch_crawl_articles"
    /\ Len(urls) = 2
    /\ Len(outcomes) = 2
    /\ outcomes[1].exc = "ValueError"
    /\ outcomes[2].exc = "none"
    /\ "error" \notin result.keys
    /\ result.value.failed = 1
    /\ result.value.success = 1

\* C20: every error object a tool operation returns has exactly the keys
\* "error" and "kind", with a kind of the taxonomy; so have the error of
\* compare_articles for a list outside 2..5 and the error for a url that is
\* not allow-listed.
C20_ErrorShape ==
    (tool.phase = "done" /\ tool.name \in Tools /\ "error" \in result.keys) =>
        /\ result.keys = {"error", "kind"}
        /\ result.type \in {"ValidationError", "TimeoutError", "BlockedError", "BackendError"}

ListTools == {"batch_crawl_articles", "compare_articles"}

\* C21: batch_crawl_articles and compare_articles reject a url list of fewer
\* than 2 or more than 5 urls without crawling, and a url of the list that
\* is not allow-listed fails on its own, with no backend operation issued
\* for it.
C21_ListBoundsAndAllowList ==
    tool.name \in ListTools =>
        /\ (Len(urls) < 2 \/ Len(urls) > 5) =>
              /\ url[Handler] = NoUrl
              /\ outcomes = <<>>
              /\ tool.phase = "done" => "error" \in result.keys
        /\ \A k \in 1..Len(outcomes) :
              HostOf(outcomes[k].url) \notin AllowedHosts =>
                  outcomes[k].exc = "ValueError"
        /\ (pc[Handler] \in CrawlPcs /\ HostOf(url[Handler]) \notin AllowedHosts) =>
              ops[Handler] = 0

\* The tool in progress has made a download directory and gone through the
\* images of the page.
Downloading == tool.name \in Tools /\ log[Handler].mkdir = "ok"

\* C22: whenever a tool operation downloads images, the directory the files
\* go to is OUTPUT_DIR joined with the sanitized label, whether or not a
\* custom label was given, for crawl_weixin_article and for
\* batch_crawl_articles.
C22_DownloadsUnderRoot ==
    Downloading =>
        LET dir == OutputDir(args[Handler], url[Handler])
        IN /\ dir.root = OUTPUT_DIR
           /\ dir.name = SanitizePath(label)
           /\ \A k \in 1..Len(article[Handler].images) :
                article[Handler].images[k].local_path # NoPath =>
                    article[Handler].images[k].local_path[1] = dir

\* C29: with DOWNLOAD_IMAGES false, every crawl a tool issues runs with
\* download_images false and nothing is downloaded, whatever download_images
\* the caller passed.
C29_SettingDisablesDownloads ==
    (tool.name \in Tools /\ ~DOWNLOAD_IMAGES) =>
        /\ args[Handler].download_images = FALSE
        /\ log[Handler].mkdir = "none"
        /\ pc[Handler] # "cr_download"

\* C24: when the page that crawl loaded has no content container, crawl
\* raises nothing and returns an article whose content_html and content_text
\* are empty and whose word_count is 0, in both backends.
C24_MissingContainerIsEmptyArticle ==
    \A t \in Threads :
        (pc[t] = "idle" /\ log[t].loaded /\ ~log[t].seen.content
            /\ ~log[t].seen.challenge) =>
            /\ exc[t] = "none"
            /\ article[t].url = url[t]
            /\ article[t].content_html = <<>>
            /\ article[t].content_text = <<>>
            /\ article[t].word_count = 0

\* C25: in both backends the article lists exactly the img elements of the
\* content container whose resolved address is usable, each with that
\* address: data-src when it is non-empty and src otherwise, discarded only
\* when the resolved address is empty or a data: address. An img that has
\* only src is listed. (Stated for crawls in which no command went wrong.)
C25_ResolvedImageAddress ==
    \A t \in Threads :
        (Returned(t) /\ log[t].loaded /\ log[t].seen.content /\ ~log[t].faulted) =>
            /\ \A k \in Usable(log[t].seen) :
                 \E j \in 1..Len(article[t].images) :
                     /\ article[t].images[j].index = k
                     /\ article[t].images[j].url = ResolvedSrc(log[t].seen.imgs[k + 1])
            /\ \A j \in 1..Len(article[t].images) :
                 article[t].images[j].index \in Usable(log[t].seen)

\* C27: in the lightweight backend a crawl in which any command (open, wait,
\* get text, get html, get count, get attr) exits non-zero or prints output
\* that is not JSON ends with a backend error and returns no article; the raw
\* output of a command is never the value of an article field.
C27_FailedCommandFailsCrawl ==
    \A t \in Threads :
        (backend = "ab" /\ pc[t] = "idle") =>
            /\ log[t].faulted => (exc[t] \in BackendErrorKinds /\ article[t] = NoArticle)
            /\ \A f \in {"title", "author", "account_name", "publish_date",
                         "content_html", "content_text"} : article[t][f] # Raw
            /\ \A j \in 1..Len(article[t].images) :
                 article[t].images[j].url # "raw output"

\* C23: for title, author, account name and publish date, in both backends,
\* a crawl that loaded an article page does not fail, and each field is the
\* trimmed text of the first candidate of the backend's ordered list that
\* exists on the page with non-empty trimmed text, whatever the earlier
\* candidates are; it is the empty string when no candidate qualifies.
Qualifies(p, s) == p.elems[s].present /\ Strip(p.elems[s].text) # <<>>

FirstQualifying(p, cands) ==
    IF \E k \in 1..Len(cands) : Qualifies(p, cands[k])
    THEN LET k == CHOOSE k \in 1..Len(cands) :
                     /\ Qualifies(p, cands[k])
                     /\ \A j \in 1..(k - 1) : ~Qualifies(p, cands[j])
         IN Strip(p.elems[cands[k]].text)
    ELSE <<>>

C23_FirstQualifyingCandidate ==
    \A t \in Threads :
        (pc[t] = "idle" /\ log[t].loaded /\ log[t].seen \in MetaPages) =>
            /\ exc[t] = "none"
            /\ \A f \in {"title", "author", "account_name", "publish_date"} :
                 article[t][f] = FirstQualifying(log[t].seen, Candidates(backend, f))

\* C28: in the full-browser backend no thread runs crawl on a spider that
\* get_instance() handed out with its browser driver unset, whether it took
\* the fast path while another thread was inside _init_browser or called
\* after an earlier _init_browser raised.
C28_CrawlOnInitializedDriver ==
    \A t \in Crawlers :
        (backend = "selenium" /\ pc[t] \in CrawlPcs /\ self[t] = instance) =>
            HoldsLiveDriver(self[t])

\* C26: the session lock guards construction only and does not serialize
\* use: a thread inside crawl never holds the lock and its next step never
\* waits for another thread, so the navigate, wait and query steps of two
\* crawls on the shared session interleave; the article a crawl returns
\* carries the url it was called with.
C26_UseIsNotSerialized ==
    \A t \in Crawlers :
        /\ pc[t] \in CrawlPcs => (lock # t /\ ENABLED SharedStep(t))
        /\ Returned(t) => article[t].url = url[t]

\* crawl(A) has returned an article with url A whose text was read from the
\* page another thread navigated to for B.
C26_Witness ==
    \E t, o \in Crawlers :
        /\ t # o
        /\ self[t] = self[o]
        /\ Returned(t)
        /\ article[t].url = url[t]
        /\ log[o].loaded
        /\ url[o] # url[t]
        /\ article[t].content_text = ExtractContentText(PageFor(url[o]))
        /\ article[t].content_text # ExtractContentText(PageFor(url[t]))

====
